---- MODULE Spec2Model ----
(***************************************************************************)
(* A model of the PriceDropAlert server (src/icons/README.txt, the body of *)
(* server.js) and of its product classifier (src/unnamed/part_000).        *)
(*                                                                         *)
(* Texts are TLA+ strings, read character by character with SubSeq.  The   *)
(* rupee glyph U+20B9 is written "#", the rupee sign U+20A8 "^", the euro  *)
(* sign "~", the pound sign "&" and the yen sign "|", so that the module   *)
(* stays ASCII; no modelled text uses these characters for anything else.  *)
(*                                                                         *)
(* Numbers that stand for prices are integers counting hundredths of a     *)
(* currency unit (2500 rupees is 250000), so that two decimal digits are   *)
(* exact.  JavaScript's null and NaN are the two negative codes Null and   *)
(* NaN: no price the code computes is negative.                            *)
(***************************************************************************)
EXTENDS Integers, Sequences, FiniteSets, TLC

\* F applied to v: what LET x == v IN F(x) is, v being computed once
With(v, F(_)) == F(v)

\* The least element of a non-empty set of integers
Min(S) == CHOOSE i \in S : \A j \in S : i <= j

-----------------------------------------------------------------------------
(* Characters and strings                                                  *)

Rupee == "#"
RupeeSign == "^"
Euro == "~"
Pound == "&"
Yen == "|"

DigitChars == "0123456789"
UpperAlpha == "ABCDEFGHIJKLMNOPQRSTUVWXYZ"
LowerAlpha == "abcdefghijklmnopqrstuvwxyz"

Ch(s, i) == SubSeq(s, i, i)

CharsOf(s) == {Ch(s, i) : i \in 1..Len(s)}

IsDigit(c) == c \in CharsOf(DigitChars)

IsSpace(c) == c = " "

IsWordChar(c) == c \in CharsOf(DigitChars) \cup CharsOf(UpperAlpha) \cup CharsOf(LowerAlpha) \cup {"_"}

DigitVal(c) == CHOOSE d \in 0..9 : Ch(DigitChars, d + 1) = c

LowerCh(c) ==
    IF c \in CharsOf(UpperAlpha)
    THEN Ch(LowerAlpha, CHOOSE i \in 1..26 : Ch(UpperAlpha, i) = c)
    ELSE c

UpperCh(c) ==
    IF c \in CharsOf(LowerAlpha)
    THEN Ch(UpperAlpha, CHOOSE i \in 1..26 : Ch(LowerAlpha, i) = c)
    ELSE c

\* String.prototype.toLowerCase, by halves
RECURSIVE ToLowerCase(_)
ToLowerCase(s) ==
    IF Len(s) <= 1 THEN LowerCh(s)
    ELSE ToLowerCase(SubSeq(s, 1, Len(s) \div 2))
         \o ToLowerCase(SubSeq(s, Len(s) \div 2 + 1, Len(s)))

\* String.prototype.includes
Includes(s, sub) ==
    \E i \in 1..(Len(s) - Len(sub) + 1) : SubSeq(s, i, i + Len(sub) - 1) = sub

\* The first index at or after i whose character is not in set cs (Len(s)+1 if none):
\* where a greedy run of cs characters starting at i ends.
RECURSIVE RunEnd(_, _, _)
RunEnd(s, i, cs) == IF i > Len(s) \/ Ch(s, i) \notin cs THEN i ELSE RunEnd(s, i + 1, cs)

\* String.prototype.trim (the modelled texts hold no other white space than " ")
TrimStart(s) == SubSeq(s, RunEnd(s, 1, {" "}), Len(s))

TrimEnd(s) ==
    SubSeq(s, 1, CHOOSE j \in 0..Len(s) :
                     /\ \A k \in (j + 1)..Len(s) : Ch(s, k) = " "
                     /\ (j = 0 \/ Ch(s, j) # " "))

Trim(s) == TrimEnd(TrimStart(s))

\* s.replace(/,/g, '') and the like: s without the characters of cs
RECURSIVE Strip(_, _)
Strip(s, cs) ==
    IF Len(s) <= 1 THEN (IF s \in cs THEN "" ELSE s)
    ELSE Strip(SubSeq(s, 1, Len(s) \div 2), cs)
         \o Strip(SubSeq(s, Len(s) \div 2 + 1, Len(s)), cs)

\* s with only the characters of cs kept: s.replace(/[^...]/g, '')
RECURSIVE Keep(_, _)
Keep(s, cs) ==
    IF Len(s) <= 1 THEN (IF s \in cs THEN s ELSE "")
    ELSE Keep(SubSeq(s, 1, Len(s) \div 2), cs)
         \o Keep(SubSeq(s, Len(s) \div 2 + 1, Len(s)), cs)

-----------------------------------------------------------------------------
(* Numbers                                                                 *)

Null == -1
NaN == -2

\* The value of a string of digits
RECURSIVE DigitsValue(_)
DigitsValue(s) ==
    IF s = "" THEN 0
    ELSE DigitsValue(SubSeq(s, 1, Len(s) - 1)) * 10 + DigitVal(Ch(s, Len(s)))

\* parseInt(s, 10), in hundredths: the leading digits of s, NaN when s starts
\* with no digit (the modelled texts carry no sign and no leading space here)
ParseInt(s) ==
    With(RunEnd(s, 1, CharsOf(DigitChars)), LAMBDA e :
        IF e = 1 THEN NaN ELSE DigitsValue(SubSeq(s, 1, e - 1)) * 100)

\* The first two decimal digits of a digit string as hundredths ("5" is 50)
Hundredths(d) ==
    IF d = "" THEN 0
    ELSE IF Len(d) = 1 THEN DigitVal(Ch(d, 1)) * 10
    ELSE DigitVal(Ch(d, 1)) * 10 + DigitVal(Ch(d, 2))

\* parseFloat(s), in hundredths: leading digits, then an optional "." and
\* digits; NaN when neither a digit nor "." followed by a digit starts s.
\* Digits after the second decimal are dropped (the texts modelled carry at
\* most two).
ParseFloat(s) ==
    With(RunEnd(s, 1, CharsOf(DigitChars)), LAMBDA e :
    With(IF e <= Len(s) /\ Ch(s, e) = "."
         THEN SubSeq(s, e + 1, RunEnd(s, e + 1, CharsOf(DigitChars)) - 1)
         ELSE "", LAMBDA frac :
        IF e = 1 /\ frac = "" THEN NaN
        ELSE DigitsValue(SubSeq(s, 1, e - 1)) * 100 + Hundredths(frac)))

\* n currency units in hundredths
H(n) == n * 100

\* JavaScript's a < b and a > b on numbers: false when either is NaN
Lt(a, b) == a # NaN /\ b # NaN /\ a < b
Gt(a, b) == a # NaN /\ b # NaN /\ a > b

\* JavaScript truthiness of a number or null: not null, not NaN, not 0
TruthyNum(a) == a # Null /\ a # NaN /\ a # 0

-----------------------------------------------------------------------------
(* Product classifier: src/unnamed/part_000                                *)

ElectronicsKeywords ==
    << <<"mobile", 10>>, <<"phone", 10>>, <<"smartphone", 10>>, <<"tv", 10>>,
       <<"television", 10>>, <<"laptop", 10>>, <<"computer", 10>>, <<"tablet", 10>>,
       <<"ipad", 10>>, <<"camera", 10>>,
       <<"headphone", 8>>, <<"earphone", 8>>, <<"speaker", 8>>, <<"bluetooth", 8>>,
       <<"wireless", 8>>, <<"soundbar", 8>>, <<"projector", 8>>, <<"microphone", 8>>,
       <<"audio", 8>>,
       <<"monitor", 7>>, <<"printer", 7>>, <<"keyboard", 7>>, <<"mouse", 7>>,
       <<"router", 7>>, <<"modem", 7>>, <<"webcam", 7>>, <<"scanner", 7>>,
       <<"processor", 6>>, <<"cpu", 6>>, <<"gpu", 6>>, <<"ram", 6>>, <<"ssd", 6>>,
       <<"hdd", 6>>, <<"motherboard", 6>>, <<"graphics", 6>>, <<"battery", 6>>,
       <<"charger", 6>>,
       <<"samsung", 3>>, <<"apple", 3>>, <<"sony", 3>>, <<"lg", 3>>, <<"dell", 4>>,
       <<"hp", 4>>, <<"lenovo", 4>>, <<"asus", 4>>, <<"acer", 4>>, <<"xiaomi", 3>>,
       <<"oneplus", 4>> >>

ElectronicsNegative == <<"shirt", "dress", "pant", "clothing", "fashion", "apparel">>

FashionKeywords ==
    << <<"shirt", 10>>, <<"tshirt", 10>>, <<"t-shirt", 10>>, <<"dress", 10>>,
       <<"pant", 10>>, <<"trouser", 10>>, <<"jeans", 10>>, <<"skirt", 10>>,
       <<"top", 8>>, <<"blouse", 10>>,
       <<"saree", 10>>, <<"kurta", 10>>, <<"kurti", 10>>, <<"lehenga", 10>>,
       <<"dupatta", 9>>, <<"salwar", 9>>, <<"palazzo", 9>>, <<"ethnic", 8>>,
       <<"jacket", 9>>, <<"coat", 9>>, <<"sweater", 9>>, <<"sweatshirt", 9>>,
       <<"hoodie", 9>>, <<"blazer", 9>>, <<"shrug", 8>>,
       <<"fashion", 7>>, <<"clothing", 7>>, <<"apparel", 7>>, <<"wear", 6>>,
       <<"outfit", 6>>, <<"designer", 6>>, <<"boutique", 6>>, <<"trendy", 5>>,
       <<"stylish", 5>>,
       <<"cotton", 4>>, <<"silk", 4>>, <<"wool", 4>>, <<"polyester", 4>>,
       <<"linen", 4>>, <<"denim", 4>>, <<"leather", 4>>, <<"fabric", 4>> >>

FashionNegative == <<"electronics", "mobile", "laptop", "charger", "digital">>

\* The categories object, in declaration order
categories ==
    << [name |-> "electronics", keywords |-> ElectronicsKeywords,
        negativeKeywords |-> ElectronicsNegative],
       [name |-> "fashion", keywords |-> FashionKeywords,
        negativeKeywords |-> FashionNegative] >>

CLASSIFICATION_THRESHOLD == 10
NEGATIVE_KEYWORD_PENALTY == -15

\* The sum of f[i] over i in 1..n
RECURSIVE SumTo(_, _)
SumTo(f, n) == IF n = 0 THEN 0 ELSE SumTo(f, n - 1) + f[n]

\* The score of one category without the penalty of its negative keywords
CategoryScoreUnpenalised(cat, text) ==
    LET pos == [i \in 1..Len(cat.keywords) |->
                    IF Includes(text, cat.keywords[i][1]) THEN cat.keywords[i][2] ELSE 0]
    IN  SumTo(pos, Len(cat.keywords))

\* The score classifyProduct computes for one category
CategoryScore(cat, text) ==
    LET pos == [i \in 1..Len(cat.keywords) |->
                    IF Includes(text, cat.keywords[i][1]) THEN cat.keywords[i][2] ELSE 0]
        neg == [i \in 1..Len(cat.negativeKeywords) |->
                    IF Includes(text, cat.negativeKeywords[i])
                    THEN NEGATIVE_KEYWORD_PENALTY ELSE 0]
    IN  SumTo(pos, Len(cat.keywords)) + SumTo(neg, Len(cat.negativeKeywords))

\* The loop over Object.entries(scores): the index of the first category with
\* the highest score (a later category replaces it only with score > maxScore);
\* scores[j] is the score of categories[j]
BestCategory(scores) ==
    CHOOSE i \in DOMAIN scores :
        /\ \A j \in DOMAIN scores : scores[j] <= scores[i]
        /\ \A j \in 1..(i - 1) : scores[j] < scores[i]

\* classifyProduct without its threshold test: the best category whatever its score
classifyProductUnthresholded(url, title) ==
    With(ToLowerCase(url \o " " \o title), LAMBDA text :
    With([j \in 1..Len(categories) |-> CategoryScore(categories[j], text)], LAMBDA scores :
    With(BestCategory(scores), LAMBDA best :
        [category |-> categories[best].name, score |-> scores[best],
         isConfident |-> scores[best] >= CLASSIFICATION_THRESHOLD * 2])))

\* classifyProduct with isConfident decided at the threshold itself
classifyProductConfidentAtThreshold(url, title) ==
    With(ToLowerCase(url \o " " \o title), LAMBDA text :
    With([j \in 1..Len(categories) |-> CategoryScore(categories[j], text)], LAMBDA scores :
    With(BestCategory(scores), LAMBDA best :
        IF scores[best] >= CLASSIFICATION_THRESHOLD
        THEN [category |-> categories[best].name, score |-> scores[best],
              isConfident |-> scores[best] >= CLASSIFICATION_THRESHOLD]
        ELSE [category |-> "other", score |-> 0, isConfident |-> FALSE])))

classifyProduct(url, title) ==
    With(ToLowerCase(url \o " " \o title), LAMBDA text :
    With([j \in 1..Len(categories) |-> CategoryScore(categories[j], text)], LAMBDA scores :
    With(BestCategory(scores), LAMBDA best :
        IF scores[best] >= CLASSIFICATION_THRESHOLD
        THEN [category |-> categories[best].name, score |-> scores[best],
              isConfident |-> scores[best] >= CLASSIFICATION_THRESHOLD * 2]
        ELSE [category |-> "other", score |-> 0, isConfident |-> FALSE])))

isElectronicProduct(url, title) == classifyProduct(url, title).category = "electronics"

-----------------------------------------------------------------------------
(* Price text normalisation: extractPriceValue                             *)

NumChars == CharsOf(DigitChars) \cup {","}

\* Where the optional group (?:\.\d{1,2})? ends when tried at index e
DecimalEnd(s, e) ==
    IF e + 1 <= Len(s) /\ Ch(s, e) = "." /\ IsDigit(Ch(s, e + 1))
    THEN (IF e + 2 <= Len(s) /\ IsDigit(Ch(s, e + 2)) THEN e + 3 ELSE e + 2)
    ELSE e

\* Whether  [anchors]\s*[\d,]+  matches s starting at index i
AnchorAt(s, anchors, i) ==
    /\ Ch(s, i) \in anchors
    /\ With(RunEnd(s, i + 1, {" "}), LAMBDA b : RunEnd(s, b, NumChars) > b)

\* The leftmost match of  [anchors]\s*([\d,]+)  in s at or after index from:
\* at is the anchor's index, b the first and e - 1 the last index of the
\* [\d,]+ run; found is FALSE when nothing matches.
AnchorMatch(s, anchors, from) ==
    With({i \in from..Len(s) : AnchorAt(s, anchors, i)}, LAMBDA hits :
        IF hits = {} THEN [found |-> FALSE, at |-> 0, b |-> 0, e |-> 0]
        ELSE With(RunEnd(s, Min(hits) + 1, {" "}), LAMBDA b :
                 [found |-> TRUE, at |-> Min(hits), b |-> b, e |-> RunEnd(s, b, NumChars)]))

Returned(v) == [done |-> TRUE, v |-> v]
NotReturned == [done |-> FALSE, v |-> Null]

\* /[₹₨Rs$€£]/i
MainPriceAnchors == {Rupee, RupeeSign, "R", "r", "S", "s", "$", Euro, Pound}

\* Step 1.  The regex has one group, which holds the decimals too; group 2 does
\* not exist, so decimalPart is always '' and parseInt cuts the decimals off.
MainPriceStep(priceStr) ==
    With(AnchorMatch(priceStr, MainPriceAnchors, 1), LAMBDA m :
    With(Strip(SubSeq(priceStr, m.b, DecimalEnd(priceStr, m.e) - 1), {","}), LAMBDA wholePart :
    With(ParseInt(wholePart), LAMBDA parsedWhole :
        IF m.found /\ wholePart # "" /\ parsedWhole # NaN
        THEN Returned(parsedWhole)
        ELSE NotReturned)))

\* Step 2.  /₹\s*([\d,]+)(?:\.(\d{1,2}))?/
FlipkartStep(priceStr) ==
    With(AnchorMatch(priceStr, {Rupee}, 1), LAMBDA m :
    With(Strip(SubSeq(priceStr, m.b, m.e - 1), {","}), LAMBDA wholePart :
    With(SubSeq(priceStr, m.e + 1, DecimalEnd(priceStr, m.e) - 1), LAMBDA decimalPart :
    With(ParseInt(wholePart), LAMBDA parsedWhole :
        IF m.found /\ wholePart # "" /\ parsedWhole # NaN
        THEN (IF decimalPart # ""
              THEN Returned(parsedWhole + Hundredths(decimalPart))
              ELSE Returned(parsedWhole))
        ELSE NotReturned))))

\* /([₹Rs.$€£])\s*[\d,]+\.?\d*/
PromoAnchors == {Rupee, "R", "s", ".", "$", Euro, Pound}

HasPromoWord(priceStr) ==
    With(ToLowerCase(priceStr), LAMBDA lower :
        Includes(lower, "off") \/ Includes(lower, "save") \/ Includes(lower, "up to"))

\* Step 3.  The text the later steps parse: match[0] of a promotional text, the
\* text itself otherwise; done (return null) for a promotional text without match.
PromoStep(priceStr) ==
    IF HasPromoWord(priceStr)
    THEN With(AnchorMatch(priceStr, PromoAnchors, 1), LAMBDA m :
         With(IF m.e <= Len(priceStr) /\ Ch(priceStr, m.e) = "." THEN m.e + 1 ELSE m.e,
              LAMBDA dot :
             IF m.found
             THEN [done |-> FALSE,
                   str |-> SubSeq(priceStr, m.at,
                                  RunEnd(priceStr, dot, CharsOf(DigitChars)) - 1)]
             ELSE [done |-> TRUE, str |-> ""]))
    ELSE [done |-> FALSE, str |-> priceStr]

\* The index of the first c in s at or after index i, Len(s) + 1 if none
IndexFrom(s, c, i) == RunEnd(s, i, CharsOf(s) \ {c})

\* Steps 4 and 5.  split('.') keeps what precedes the first "." and what lies
\* between the first and the second.
StripAndParse(str) ==
    With(Keep(str, CharsOf(DigitChars) \cup {".", ","}), LAMBDA priceStr :
    With(IndexFrom(priceStr, ".", 1), LAMBDA d1 :
    With(SubSeq(priceStr, d1 + 1, IndexFrom(priceStr, ".", d1 + 1) - 1), LAMBDA part1 :
        IF d1 <= Len(priceStr)
        THEN ParseFloat(Strip(SubSeq(priceStr, 1, d1 - 1), {","}) \o "."
                        \o (IF Len(part1) > 2 THEN SubSeq(part1, 1, 2) ELSE part1))
        ELSE ParseFloat(Strip(priceStr, {","})))))

\* originalString.match(/\d+,\d+\.\d{2}/)
HasGroupedTwoDecimals(s) ==
    \E c \in 2..Len(s) :
        /\ Ch(s, c) = ","
        /\ IsDigit(Ch(s, c - 1))
        /\ With(RunEnd(s, c + 1, CharsOf(DigitChars)), LAMBDA e :
               /\ e > c + 1
               /\ e + 2 <= Len(s)
               /\ Ch(s, e) = "."
               /\ IsDigit(Ch(s, e + 1))
               /\ IsDigit(Ch(s, e + 2)))

\* Step 6 left out: no price is taken for a decimal error
TooHighStepNever(price, originalString) == NotReturned

\* Step 6.  price / 100, to the hundredth
TooHighStep(price, originalString) ==
    IF Gt(price, H(500000)) /\ HasGroupedTwoDecimals(originalString) /\ Gt(price, H(10000))
    THEN Returned(price \div 100)
    ELSE NotReturned

\* Step 7.  /₹\s*([\d,]+)/
TooLowStep(price, originalString) ==
    With(AnchorMatch(originalString, {Rupee}, 1), LAMBDA m :
    With(ParseInt(Strip(SubSeq(originalString, m.b, m.e - 1), {","})), LAMBDA correctPrice :
        IF /\ Lt(price, H(100))
           /\ Includes(originalString, Rupee)
           /\ m.found
           /\ Gt(correctPrice, H(100))
        THEN Returned(correctPrice)
        ELSE NotReturned))

\* The successive matches of /₹\s*([\d,]+(?:\.\d{1,2})?)/g in s from index
\* from on: for each, its index, its text match[0] and the value
\* parseFloat(match[1].replace(/,/g, ''))
RECURSIVE RupeeMatches(_, _)
RupeeMatches(s, from) ==
    With(AnchorMatch(s, {Rupee}, from), LAMBDA m :
    With(DecimalEnd(s, m.e), LAMBDA end :
        IF ~m.found THEN << >>
        ELSE << [index |-> m.at - 1,
                 text |-> SubSeq(s, m.at, end - 1),
                 value |-> ParseFloat(Strip(SubSeq(s, m.b, end - 1), {","}))] >>
             \o RupeeMatches(s, end)))

\* globalThis._currentProductUrl and _currentProductTitle when not set
Undefined == "undefined"

\* Step 8.  The price chosen among all rupee amounts of the text when the
\* parse gave NaN; ctx is globalThis (its url and title, or Undefined)
MultiPriceStep(price, originalString, ctx) ==
    LET Positive(m) == m.value # NaN /\ m.value > 0
    IN  With(SelectSeq(RupeeMatches(originalString, 1), Positive), LAMBDA allPrices :
            IF price = NaN /\ Includes(originalString, Rupee) /\ Len(allPrices) > 0
            THEN (IF ctx.url # Undefined /\ isElectronicProduct(ctx.url, ctx.title)
                  THEN (IF Len(allPrices) >= 2 THEN allPrices[2].value
                        ELSE allPrices[1].value)
                  ELSE allPrices[1].value)
            ELSE price)

\* extractPriceValue of a string; ctx stands for the two globalThis properties
extractPriceValue(priceStr, ctx) ==
    IF priceStr = "" THEN Null
    ELSE With(MainPriceStep(priceStr), LAMBDA s1 :
         IF s1.done THEN s1.v
         ELSE With(FlipkartStep(priceStr), LAMBDA s2 :
         IF s2.done THEN s2.v
         ELSE With(PromoStep(priceStr), LAMBDA s3 :
         IF s3.done THEN Null
         ELSE With(StripAndParse(s3.str), LAMBDA parsed :
              With(TooHighStep(parsed, priceStr), LAMBDA s6 :
         IF s6.done THEN s6.v
         ELSE With(TooLowStep(parsed, priceStr), LAMBDA s7 :
         IF s7.done THEN s7.v
         ELSE With(MultiPriceStep(parsed, priceStr, ctx), LAMBDA price :
         IF price = NaN THEN Null ELSE price)))))))

NoContext == [url |-> Undefined, title |-> Undefined]

-----------------------------------------------------------------------------
(* What the scrapers read from the URL                                     *)

AlnumChars == CharsOf(DigitChars) \cup CharsOf(UpperAlpha) \cup CharsOf(LowerAlpha)

\* The index of the first occurrence of sub in s, 0 if none
IndexOf(s, sub) ==
    With({i \in 1..(Len(s) - Len(sub) + 1) : SubSeq(s, i, i + Len(sub) - 1) = sub},
         LAMBDA hits : IF hits = {} THEN 0 ELSE Min(hits))

\* The run of cs characters that follows the first occurrence of prefix in s:
\* group 1 of /prefix([cs]+)/, "" when the regex does not match
RunAfter(s, prefix, cs) ==
    With({i \in 1..(Len(s) - Len(prefix) + 1) :
             /\ SubSeq(s, i, i + Len(prefix) - 1) = prefix
             /\ RunEnd(s, i + Len(prefix), cs) > i + Len(prefix)}, LAMBDA hits :
        IF hits = {} THEN ""
        ELSE SubSeq(s, Min(hits) + Len(prefix), RunEnd(s, Min(hits) + Len(prefix), cs) - 1))

\* The leftmost run of at least n characters of cs in s, "" if none
LongRun(s, cs, n) ==
    With({i \in 1..Len(s) : RunEnd(s, i, cs) - i >= n}, LAMBDA hits :
        IF hits = {} THEN "" ELSE SubSeq(s, Min(hits), RunEnd(s, Min(hits), cs) - 1))

\* extractFlipkartProductId: "" stands for null
extractFlipkartProductId(url) ==
    With(RunAfter(url, "pid=", AlnumChars), LAMBDA pid :
        IF pid # "" THEN pid
        ELSE With(RunAfter(url, "/p/", AlnumChars), LAMBDA p :
                 IF p # "" THEN p ELSE LongRun(url, AlnumChars, 16)))

\* Group 1 of url.match(/\/([^\/]+)\/p\//), "" when there is no match
PathBeforeP(url) ==
    With({i \in 1..Len(url) :
             /\ Ch(url, i) = "/"
             /\ With(IndexFrom(url, "/", i + 1), LAMBDA e :
                    e > i + 1 /\ e + 2 <= Len(url) /\ SubSeq(url, e, e + 2) = "/p/")},
         LAMBDA hits :
        IF hits = {} THEN ""
        ELSE SubSeq(url, Min(hits) + 1, IndexFrom(url, "/", Min(hits) + 1) - 1))

\* s with every c replaced by d
RECURSIVE ReplaceAll(_, _, _)
ReplaceAll(s, c, d) ==
    IF Len(s) <= 1 THEN (IF s = c THEN d ELSE s)
    ELSE ReplaceAll(SubSeq(s, 1, Len(s) \div 2), c, d)
         \o ReplaceAll(SubSeq(s, Len(s) \div 2 + 1, Len(s)), c, d)

UnitWords == {"gb", "tb", "inch", "cm"}

\* The indices of s at a letter of the unit of a match of
\* /[0-9]+\s*(gb|tb|inch|cm)/gi (the digits and spaces of a match do not change)
UnitLetters(s) ==
    UNION { IF /\ st + Len(u) - 1 <= Len(s)
               /\ ToLowerCase(SubSeq(s, st, st + Len(u) - 1)) = u
               /\ \E d \in 1..(st - 1) :
                     /\ IsDigit(Ch(s, d))
                     /\ \A j \in (d + 1)..(st - 1) : Ch(s, j) = " "
            THEN st..(st + Len(u) - 1)
            ELSE {} : st \in 1..Len(s), u \in UnitWords }

\* .replace(/[0-9]+\s*(gb|tb|inch|cm)/gi, upper).replace(/\b(\w)/g, upper)
Capitalise(s) ==
    With(UnitLetters(s), LAMBDA units :
        LET Up(k) == \/ k \in units
                     \/ IsWordChar(Ch(s, k)) /\ (k = 1 \/ ~IsWordChar(Ch(s, k - 1)))
            out[k \in 0..Len(s)] ==
                IF k = 0 THEN ""
                ELSE out[k - 1] \o (IF Up(k) THEN UpperCh(Ch(s, k)) ELSE Ch(s, k))
        IN  out[Len(s)])

UrlCategory(url) ==
    With(ToLowerCase(url), LAMBDA u :
        IF Includes(u, "mobile") \/ Includes(u, "phone") THEN "Mobile Phone"
        ELSE IF Includes(u, "laptop") THEN "Laptop"
        ELSE IF Includes(u, "tv") \/ Includes(u, "television") THEN "Television"
        ELSE IF \/ Includes(u, "headphone") \/ Includes(u, "earphone")
                \/ Includes(u, "earbud") \/ Includes(u, "buds") THEN "Headphones"
        ELSE IF Includes(u, "watch") THEN "Watch"
        ELSE IF Includes(u, "camera") THEN "Camera"
        ELSE IF Includes(u, "refrigerator") \/ Includes(u, "fridge") THEN "Refrigerator"
        ELSE IF Includes(u, "washing-machine") THEN "Washing Machine"
        ELSE IF Includes(u, "air-conditioner") \/ Includes(u, "ac-") THEN "Air Conditioner"
        ELSE "Product")

commonBrands ==
    << "samsung", "apple", "xiaomi", "mi", "redmi", "oneplus", "poco", "realme", "oppo",
       "vivo", "nokia", "motorola", "sony", "lg", "panasonic", "hp", "dell", "lenovo",
       "asus", "acer", "boat", "jbl", "zebronics", "philips", "whirlpool", "haier",
       "godrej", "voltas", "daikin" >>

\* The first brand of commonBrands the URL holds, capitalised; "" if none
UrlBrand(url) ==
    With(ToLowerCase(url), LAMBDA u :
    With({i \in 1..Len(commonBrands) : Includes(u, commonBrands[i])}, LAMBDA hits :
        IF hits = {} THEN "" ELSE Capitalise(commonBrands[Min(hits)])))

extractFlipkartProductName(url) ==
    With(PathBeforeP(url), LAMBDA path :
        IF path # "" THEN Capitalise(ReplaceAll(path, "-", " "))
        ELSE With(UrlBrand(url), LAMBDA brand :
                 IF brand # "" THEN brand \o " " \o UrlCategory(url) ELSE UrlCategory(url)))

\* new URL(url).hostname of an absolute URL without port, credentials or fragment
Hostname(url) ==
    With(IndexOf(url, "://") + 3, LAMBDA start :
        SubSeq(url, start, RunEnd(url, start, CharsOf(url) \ {"/", "?"}) - 1))

\* hostname.replace('www.', '').split('.')[0], its first letter in upper case,
\* followed by " Product"
DomainProductName(url) ==
    With(Hostname(url), LAMBDA host :
    With(IndexOf(host, "www."), LAMBDA w :
    With(IF w = 0 THEN host ELSE SubSeq(host, 1, w - 1) \o SubSeq(host, w + 4, Len(host)),
         LAMBDA bare :
    With(SubSeq(bare, 1, IndexFrom(bare, ".", 1) - 1), LAMBDA domain :
        (IF domain = "" THEN ""
         ELSE UpperCh(Ch(domain, 1)) \o SubSeq(domain, 2, Len(domain))) \o " Product"))))

\* Group 1 of url.match(/\/([A-Z0-9]{10})(?:\/|\?|$)/), "" when there is no match
Asin(url) ==
    With({i \in 1..Len(url) :
             /\ Ch(url, i) = "/"
             /\ i + 10 <= Len(url)
             /\ \A k \in (i + 1)..(i + 10) :
                   Ch(url, k) \in CharsOf(DigitChars) \cup CharsOf(UpperAlpha)
             /\ (i + 10 = Len(url) \/ Ch(url, i + 11) \in {"/", "?"})}, LAMBDA hits :
        IF hits = {} THEN "" ELSE SubSeq(url, Min(hits) + 1, Min(hits) + 10))

\* The name both branches of scrapeProductInfo derive from the URL
UrlFallbackName(url) ==
    IF Includes(url, "amazon.")
    THEN With(Asin(url), LAMBDA asin :
             IF asin # "" THEN "Amazon Product " \o asin ELSE "Amazon Product")
    ELSE IF Includes(url, "flipkart.com") THEN extractFlipkartProductName(url)
    ELSE DomainProductName(url)

SiteType(url) ==
    IF Includes(url, "amazon.") THEN "amazon"
    ELSE IF Includes(url, "flipkart.") THEN "flipkart"
    ELSE "other"

-----------------------------------------------------------------------------
(* Markup.  A page is the sequence of its elements in document order.  An  *)
(* element has a tag, an id, its classes, its attributes, what its         *)
(* ancestors offer to a descendant selector (anc), the text that precedes  *)
(* it inside its parent (label), its own text, and for a linked-data       *)
(* script the items of the parsed JSON (ld).  Every element of a modelled  *)
(* page sits alone in a parent of its own, so the parent's text is the     *)
(* label followed by the element's text.                                   *)

Element(tag, id, cls, attrs, anc, label, text, ld) ==
    [tag |-> tag, id |-> id, cls |-> cls, attrs |-> attrs, anc |-> anc,
     label |-> label, text |-> text, ld |-> ld]

\* A selector: tag, id, classes and attribute of the element (each "" or {}
\* when not asked for), and the ancestor a descendant selector asks for
Sel(tag, id, cls, attr, anc) ==
    [tag |-> tag, id |-> id, cls |-> cls, attr |-> attr, anc |-> anc]

ById(id) == Sel("", id, {}, "", "")
ByClass(c) == Sel("", "", {c}, "", "")
ByClasses(cs) == Sel("", "", cs, "", "")
ByTag(t) == Sel(t, "", {}, "", "")
ByAttr(a) == Sel("", "", {}, a, "")
Within(anc, sel) == [sel EXCEPT !.anc = anc]

Matches(el, sel) ==
    /\ sel.tag = "" \/ el.tag = sel.tag
    /\ sel.id = "" \/ el.id = sel.id
    /\ sel.cls \subseteq el.cls
    /\ sel.attr = "" \/ sel.attr \in el.attrs
    /\ sel.anc = "" \/ sel.anc \in el.anc

\* $(selector): the matching elements in document order
Select(page, sel) == SelectSeq(page, LAMBDA el : Matches(el, sel))

RECURSIVE ConcatTexts(_)
ConcatTexts(els) == IF els = << >> THEN "" ELSE Head(els).text \o ConcatTexts(Tail(els))

\* $(selector).text()
TextAll(page, sel) == ConcatTexts(Select(page, sel))

\* $(selector).first().text()
TextFirst(page, sel) ==
    With(Select(page, sel), LAMBDA els : IF els = << >> THEN "" ELSE Head(els).text)

\* $(this).parent().text()
ParentText(el) == el.label \o el.text

\* $('body').text(): the head's <title> is not part of it, a script's JSON
\* holds none of the characters the price patterns look for, and white space
\* separates the markup of two elements
RECURSIVE BodyText(_)
BodyText(page) ==
    IF page = << >> THEN ""
    ELSE (IF Head(page).tag \in {"title", "script"} THEN "" ELSE ParentText(Head(page)) \o " ")
         \o BodyText(Tail(page))

\* for (const selector of list) { t = f(selector); if (t) break; }: the first
\* non-empty text of texts, "" when all are empty
FirstNonEmpty(texts) ==
    With({i \in 1..Len(texts) : texts[i] # ""}, LAMBDA hits :
        IF hits = {} THEN "" ELSE texts[Min(hits)])

amazonTitleSelectors ==
    << ById("productTitle"), ById("title"), ByClass("product-title"),
       ByClasses({"a-size-large", "product-title-word-break"}) >>

amazonPriceSelectors ==
    << Within(".a-price", ByClass("a-offscreen")), ById("priceblock_ourprice"),
       ById("priceblock_dealprice"), ByClass("a-price-whole"),
       ById("price_inside_buybox"), ById("newBuyBoxPrice") >>

titleSelectors ==
    << ByTag("h1"), ByClass("product-title"), ByClass("product-name"),
       ByClass("product_title"), ByClass("title"), ByClass("name"), ByTag("title") >>

priceSelectors ==
    << ByClass("product-price"), ByClass("price"), ByClass("offer-price"),
       ByClass("current-price"), ByClass("sale-price"), ByClass("our-price"),
       ByAttr("itemprop=price"), Within(".special-price", ByClass("price")),
       ByClass("special-price") >>

flipkartTitleSelectors ==
    << ByClass("B_NuCI"), ByClass("_35KyD6"), Within("h1", ByTag("span")),
       Within(".yhB1nd", ByTag("span")), ByTag("h1") >>

flipkartPriceSelectors ==
    << ByClasses({"_30jeq3", "_1_WHN1"}), ByClasses({"_30jeq3", "_16Jk6d"}),
       ByClass("_30jeq3"), Within(".dyC4hf", ByClass("CEmiEU")), ByClass("dyC4hf"),
       ByClass("_1vC4OE"), ByClass("_16Jk6d"), Within(".CEmiEU", ByClass("_30jeq3")),
       ByClass("_25b18w"), ByAttr("data-price"), ByClass("a-price-whole"),
       ByClass("a-offscreen") >>

-----------------------------------------------------------------------------
(* scrapeProductInfo: the generic and the amazon path                      *)

\* Where  \s*[,\d]+\.?\d*  ends when tried at index j of s, 0 when it fails
NumberTailEnd(s, j) ==
    With(RunEnd(s, j, {" "}), LAMBDA b :
    With(RunEnd(s, b, NumChars), LAMBDA e :
        IF e > b
        THEN RunEnd(s, IF e <= Len(s) /\ Ch(s, e) = "." THEN e + 1 ELSE e,
                    CharsOf(DigitChars))
        ELSE 0))

\* \b before index i, for an anchor that starts with a letter
BoundaryBefore(s, i) == i = 1 \/ ~IsWordChar(Ch(s, i - 1))

\* \b after a word that ends at index i - 1
BoundaryAfter(s, i) == i > Len(s) \/ ~IsWordChar(Ch(s, i))

\* The alternatives of the anchor after the character class, in order:
\* \bRS\.  \bRS\b  \bINR\b  \bUSD\b  \bEUR\b  (flag i)
WordAnchors ==
    << [w |-> "rs.", endb |-> FALSE], [w |-> "rs", endb |-> TRUE],
       [w |-> "inr", endb |-> TRUE], [w |-> "usd", endb |-> TRUE],
       [w |-> "eur", endb |-> TRUE] >>

\* Whether alternative a of WordAnchors, then the number, match s at index i
WordAnchorAt(s, i, a) ==
    /\ i + Len(a.w) - 1 <= Len(s)
    /\ ToLowerCase(SubSeq(s, i, i + Len(a.w) - 1)) = a.w
    /\ BoundaryBefore(s, i)
    /\ a.endb => BoundaryAfter(s, i + Len(a.w))
    /\ NumberTailEnd(s, i + Len(a.w)) > 0

\* Where the match of priceRegex that starts at index i ends, 0 if none starts there
PriceRegexEnd(s, i) ==
    With(IF Ch(s, i) \in {Rupee, "$", Euro, Pound, Yen} THEN NumberTailEnd(s, i + 1) ELSE 0,
         LAMBDA afterSymbol :
        IF afterSymbol > 0 THEN afterSymbol
        ELSE With({k \in 1..Len(WordAnchors) : WordAnchorAt(s, i, WordAnchors[k])},
                  LAMBDA hits :
                 IF hits = {} THEN 0
                 ELSE NumberTailEnd(s, i + Len(WordAnchors[Min(hits)].w))))

\* pageText.match(priceRegex)[0].trim(), "" when priceRegex does not match
PageTextPrice(pageText) ==
    With({i \in 1..Len(pageText) : PriceRegexEnd(pageText, i) > 0}, LAMBDA hits :
        IF hits = {} THEN ""
        ELSE Trim(SubSeq(pageText, Min(hits), PriceRegexEnd(pageText, Min(hits)) - 1)))

\* The loop of extractPriceOptions over the matches ms, acc being priceMatches
RECURSIVE CollectOptions(_, _)
CollectOptions(ms, acc) ==
    IF ms = << >> \/ Len(acc) >= 5 THEN acc
    ELSE LET m == Head(ms)
             ok == /\ m.value # NaN /\ m.value > 0 /\ m.value < H(10000000)
                   /\ \A k \in 1..Len(acc) : acc[k].value # m.value
         IN  CollectOptions(Tail(ms), IF ok THEN Append(acc, m) ELSE acc)

FirstTwo(q) == SubSeq(q, 1, IF Len(q) < 2 THEN Len(q) ELSE 2)

extractPriceOptions(pageText) ==
    With(IF pageText = "" THEN << >> ELSE CollectOptions(RupeeMatches(pageText, 1), << >>),
         LAMBDA priceMatches :
        [values |-> FirstTwo([k \in 1..Len(priceMatches) |-> priceMatches[k].value]),
         display |-> FirstTwo([k \in 1..Len(priceMatches) |-> priceMatches[k].text])])

IsAmazon(url) == Includes(url, "amazon.")
IsFlipkart(url) == Includes(url, "flipkart.com")

\* The title the selector loop of the site family leaves
SelectorTitle(url, page) ==
    IF IsAmazon(url)
    THEN FirstNonEmpty([i \in 1..Len(amazonTitleSelectors) |->
                            Trim(TextAll(page, amazonTitleSelectors[i]))])
    ELSE FirstNonEmpty([i \in 1..Len(titleSelectors) |->
                            Trim(TextFirst(page, titleSelectors[i]))])

\* The price text the selector loop of the site family leaves
SelectorPrice(url, page) ==
    IF IsAmazon(url)
    THEN FirstNonEmpty([i \in 1..Len(amazonPriceSelectors) |->
                            Trim(TextFirst(page, amazonPriceSelectors[i]))])
    ELSE FirstNonEmpty([i \in 1..Len(priceSelectors) |->
                            Trim(TextFirst(page, priceSelectors[i]))])

PageCurrency(url, price) ==
    IF ~IsAmazon(url) THEN Rupee
    ELSE IF Includes(price, "$") THEN "$"
    ELSE IF Includes(price, Euro) THEN Euro
    ELSE IF Includes(price, Pound) THEN Pound
    ELSE Rupee

\* The title after the "last resort for title"
PageTitle(url, page) ==
    With(SelectorTitle(url, page), LAMBDA title :
        IF title # "" THEN title
        ELSE With(Trim(TextFirst(page, ByTag("h1"))), LAMBDA h1 :
        IF h1 # "" THEN h1
        ELSE With(Trim(TextAll(page, ByTag("title"))), LAMBDA pageTitle :
        IF pageTitle # "" THEN pageTitle ELSE "Unknown Product")))

\* The price text scrapeProductInfo hands to extractPriceValue: the selector's
\* text, else the page-text match; "" when the code takes the number 50000
LocatedPriceText(url, page) ==
    With(SelectorPrice(url, page), LAMBDA price :
        IF price # "" THEN price ELSE PageTextPrice(BodyText(page)))

Record(title, price, currency, url, siteType, options, simulated) ==
    [title |-> title, price |-> price, currency |-> currency, url |-> url,
     siteType |-> siteType, priceOptions |-> options.values,
     priceDisplayOptions |-> options.display, isSimulated |-> simulated]

NoOptions == [values |-> << >>, display |-> << >>]

\* An outcome of a scraper: the record it returns, or the error it throws;
\* g is globalThis._currentProductUrl/_currentProductTitle as it leaves them
ReturnOf(rec, via) == [kind |-> "return", rec |-> rec, error |-> "", via |-> via, g |-> NoContext]
ThrowOf(error, via, g) == [kind |-> "throw", rec |-> << >>, error |-> error, via |-> via, g |-> g]

\* The catch block of scrapeProductInfo.  It reads $, a const of the try
\* block that is not in scope in the catch block, before it returns: the
\* fallback record is never built and the ReferenceError leaves the function.
ScrapeCatch(url, via, g) == ThrowOf("ReferenceError", via, g)

\* scrapeProductInfo from the response with status 200 on.  With no price text
\* located, price is the number 50000; extractPriceValue calls .match on it,
\* which is a TypeError thrown between the two writes of globalThis and
\* caught by the catch block.
ScrapeGeneric(url, page) ==
    With(SelectorPrice(url, page), LAMBDA selected :
    With(LocatedPriceText(url, page), LAMBDA priceStr :
    With(PageTitle(url, page), LAMBDA base :
    With([url |-> url,
          title |-> IF priceStr = "" /\ base = "Unknown Product"
                    THEN UrlFallbackName(url) ELSE base], LAMBDA ctx :
        IF priceStr = ""
        THEN ScrapeCatch(url, "placeholder", ctx)
        ELSE ReturnOf(Record(ctx.title, extractPriceValue(priceStr, ctx),
                             PageCurrency(url, selected), url, SiteType(url),
                             extractPriceOptions(BodyText(page)), FALSE),
                      IF selected # "" THEN "selector" ELSE "page-text")))))

-----------------------------------------------------------------------------
(* scrapeFlipkart: what it does with the page of a 200 response            *)

FlipkartTitle(page) ==
    FirstNonEmpty([i \in 1..Len(flipkartTitleSelectors) |->
                        Trim(TextFirst(page, flipkartTitleSelectors[i]))])

\* extractedPrice && extractedPrice > 0 && extractedPrice < 1000000
ValidPrice(p) == TruthyNum(p) /\ p > 0 /\ p < H(1000000)

HasRupeeOrRs(text) == Includes(text, Rupee) \/ Includes(text, "Rs")

\* The parent's text suggests an original price
IsMrpParent(el) ==
    With(ToLowerCase(ParentText(el)), LAMBDA parentText :
        \/ Includes(parentText, "mrp")
        \/ Includes(parentText, "original")
        \/ Includes(parentText, "list price"))

\* What METHOD 1 and METHOD 2 read from one element: the price of its text when
\* the text holds a rupee glyph or "Rs" and the price is valid, Null otherwise
ElementPrice(el, g) ==
    With(Trim(el.text), LAMBDA priceText :
        IF priceText # "" /\ HasRupeeOrRs(priceText)
        THEN With(extractPriceValue(priceText, g), LAMBDA extractedPrice :
                 IF ValidPrice(extractedPrice) THEN extractedPrice ELSE Null)
        ELSE Null)

\* The loop that stops at the first price found: the first element of prices
\* that is not Null, Null when there is none
FirstPrice(prices) ==
    With({i \in DOMAIN prices : prices[i] # Null}, LAMBDA hits :
        IF hits = {} THEN Null ELSE prices[Min(hits)])

\* METHOD 1, one selector: the value of the first matching element that is
\* not skipped and yields a valid price, Null if there is none
SelectorPriceValue(page, sel, g) ==
    With(Select(page, sel), LAMBDA els :
        FirstPrice([i \in DOMAIN els |->
                        IF IsMrpParent(els[i]) THEN Null ELSE ElementPrice(els[i], g)]))

\* METHOD 1: the value of the first selector that finds one, Null if none does
Method1Price(page, g) ==
    FirstPrice([i \in DOMAIN flipkartPriceSelectors |->
                    SelectorPriceValue(page, flipkartPriceSelectors[i], g)])

PriceClassPatterns == {"price", "prc", "amount", "_30jeq", "rupee", "value", "rate"}

\* METHOD 2: the first element, in document order, whose class attribute holds
\* one of the patterns and whose text yields a valid price
Method2Price(page, g) ==
    FirstPrice([i \in DOMAIN page |->
                    IF \E c \in page[i].cls : \E pat \in PriceClassPatterns : Includes(c, pat)
                    THEN ElementPrice(page[i], g)
                    ELSE Null])

\* METHOD 3: priceMatches, the first five rupee amounts of the page text with
\* 0 < value < 1000000
RECURSIVE CollectMatches(_, _)
CollectMatches(ms, acc) ==
    IF ms = << >> \/ Len(acc) >= 5 THEN acc
    ELSE LET m == Head(ms)
             ok == m.value # NaN /\ m.value > 0 /\ m.value < H(1000000)
         IN  CollectMatches(Tail(ms), IF ok THEN Append(acc, m) ELSE acc)

Method3Matches(page) == CollectMatches(RupeeMatches(BodyText(page), 1), << >>)

\* The candidate selection of METHOD 3 without its test for electronics
Method3SelectedFirst(url, title, priceMatches) ==
    priceMatches[1].value

\* The candidate selection of METHOD 3
Method3Selected(url, title, priceMatches) ==
    IF isElectronicProduct(url, title) /\ Len(priceMatches) >= 2
    THEN priceMatches[2].value
    ELSE priceMatches[1].value

\* A linked-data price: parseFloat of a truthy value, kept when 0 < v < 1000000
LdValid(text) ==
    /\ text # ""
    /\ With(ParseFloat(text), LAMBDA newPrice :
           newPrice # NaN /\ newPrice > 0 /\ newPrice < H(1000000))

\* The loop over the items of one script.  st holds price and
\* foundStructuredPrice.  An offers object or a direct price that is valid
\* ends the loop; a valid offer of an offers array ends only the loop over
\* the offers.
RECURSIVE LdItems(_, _)
LdItems(items, st) ==
    IF items = << >> THEN st
    ELSE With(Head(items), LAMBDA item :
         With(SelectSeq(item.offers, LdValid), LAMBDA valid :
         With(IF valid = << >> THEN st
              ELSE [price |-> ParseFloat(valid[1]), found |-> TRUE], LAMBDA afterOffers :
             IF ~item.isArray /\ valid # << >> THEN afterOffers
             ELSE IF ~afterOffers.found /\ LdValid(item.price)
             THEN [price |-> ParseFloat(item.price), found |-> TRUE]
             ELSE LdItems(Tail(items), afterOffers))))

\* The loop over the linked-data scripts: it stops once one found a price
RECURSIVE LdScripts(_, _)
LdScripts(scripts, st) ==
    IF scripts = << >> \/ st.found THEN st
    ELSE LdScripts(Tail(scripts), LdItems(Head(scripts).ld, st))

\* METHOD 4
Method4Price(page) ==
    LdScripts(Select(page, [ByTag("script") EXCEPT !.attr = "type=application/ld+json"]),
              [price |-> Null, found |-> FALSE]).price

\* charCodeAt of a letter or digit
CharCode(c) ==
    IF c \in CharsOf(DigitChars) THEN 48 + DigitVal(c)
    ELSE IF c \in CharsOf(UpperAlpha) THEN 64 + (CHOOSE i \in 1..26 : Ch(UpperAlpha, i) = c)
    ELSE 96 + (CHOOSE i \in 1..26 : Ch(LowerAlpha, i) = c)

\* hashCode, as the two 16-bit halves of the 32-bit pattern of hash:
\* hash = ((hash << 5) - hash) + char; hash |= 0
RECURSIVE hashCode(_)
hashCode(str) ==
    IF str = "" THEN [hi |-> 0, lo |-> 0]
    ELSE With(hashCode(SubSeq(str, 1, Len(str) - 1)), LAMBDA h :
         With(31 * h.lo + CharCode(Ch(str, Len(str))), LAMBDA t :
             [hi |-> (31 * h.hi + t \div 65536) % 65536, lo |-> t % 65536]))

\* Math.abs of the signed 32-bit number with halves h, as halves (hi <= 32768)
AbsHalves(h) ==
    IF h.hi < 32768 THEN h
    ELSE IF h.lo = 0 THEN [hi |-> 65536 - h.hi, lo |-> 0]
    ELSE [hi |-> 65535 - h.hi, lo |-> 65536 - h.lo]

\* Math.abs(hashCode(str)) % m
AbsHashMod(str, m) ==
    With(AbsHalves(hashCode(str)), LAMBDA a : ((((a.hi * 256) % m) * 256) + a.lo) % m)

\* METHOD 5: the simulated price of a product, in currency units
SimulatedPrice(url, productId) ==
    With(ToLowerCase(url), LAMBDA urlLower :
        IF \/ Includes(urlLower, "mobile") \/ Includes(urlLower, "phone")
           \/ Includes(urlLower, "smartphone")
        THEN 15000 + AbsHashMod(productId, 65000)
        ELSE IF Includes(urlLower, "tv") \/ Includes(urlLower, "television")
        THEN 15000 + AbsHashMod(productId, 135000)
        ELSE IF \/ Includes(urlLower, "laptop") \/ Includes(urlLower, "computer")
                \/ Includes(urlLower, "notebook")
        THEN 30000 + AbsHashMod(productId, 170000)
        ELSE IF Includes(urlLower, "camera") \/ Includes(urlLower, "dslr")
        THEN 5000 + AbsHashMod(productId, 95000)
        ELSE IF \/ Includes(urlLower, "headphone") \/ Includes(urlLower, "earphone")
                \/ Includes(urlLower, "earbud")
        THEN 1000 + AbsHashMod(productId, 29000)
        ELSE 500 + AbsHashMod(productId, 49500))

\* The final validation of a price below 1: the first rupee amount of the page
\* text replaces it when 1 < amount < 1000000
FinalPrice(page, price) ==
    With(BodyText(page), LAMBDA bodyText :
    With(AnchorMatch(bodyText, {Rupee}, 1), LAMBDA m :
    With(ParseInt(Strip(SubSeq(bodyText, m.b, m.e - 1), {","})), LAMBDA wholeNum :
        IF price < H(1) /\ m.found /\ Gt(wholeNum, H(1)) /\ Lt(wholeNum, H(1000000))
        THEN wholeNum
        ELSE price)))

FlipkartRecord(title, price, url, options, simulated) ==
    Record(title, price, Rupee, url, "flipkart", options, simulated)

\* scrapeFlipkart from cheerio.load on; g is globalThis, which extractPriceValue reads
ScrapeFlipkartPage(url, page, g) ==
    With(FlipkartTitle(page), LAMBDA title :
    With(Method1Price(page, g), LAMBDA m1 :
    With(IF TruthyNum(m1) THEN m1 ELSE Method2Price(page, g), LAMBDA m2 :
    With(IF TruthyNum(m2) THEN << >> ELSE Method3Matches(page), LAMBDA priceMatches :
    With(IF TruthyNum(m2) THEN m2 ELSE Method4Price(page), LAMBDA m4 :
        IF Len(priceMatches) > 0
        THEN ReturnOf(FlipkartRecord(title, Method3Selected(url, title, priceMatches), url,
                          [values |-> FirstTwo([k \in 1..Len(priceMatches) |->
                                                    priceMatches[k].value]),
                           display |-> FirstTwo([k \in 1..Len(priceMatches) |->
                                                     priceMatches[k].text])],
                          FALSE),
                      "method3")
        ELSE IF title # "" /\ TruthyNum(m4)
        THEN ReturnOf(FlipkartRecord(title, FinalPrice(page, m4), url, NoOptions, FALSE),
                      IF TruthyNum(m1) THEN "method1"
                      ELSE IF TruthyNum(m2) THEN "method2" ELSE "method4")
        ELSE ReturnOf(FlipkartRecord(IF title # "" THEN title
                                     ELSE extractFlipkartProductName(url),
                                     H(SimulatedPrice(url, extractFlipkartProductId(url))),
                                     url, NoOptions, TRUE),
                      "simulation"))))))

\* The catch block of scrapeFlipkart without its isSimulated: true
FlipkartFallbackUnflagged(url, random, error) ==
    [ReturnOf(FlipkartRecord(extractFlipkartProductName(url), H(5000 + random), url,
                             NoOptions, FALSE),
              "catch") EXCEPT !.error = error]

\* The catch block of scrapeFlipkart; random is Math.floor(Math.random() * 15000)
FlipkartFallback(url, random, error) ==
    [ReturnOf(FlipkartRecord(extractFlipkartProductName(url), H(5000 + random), url,
                             NoOptions, TRUE),
              "catch") EXCEPT !.error = error]

-----------------------------------------------------------------------------
(* The extraction pipeline as a state machine: calls of scrapeProductInfo, *)
(* one after the other, against sites that answer as they please           *)

\* Most elements a modelled page holds
MaxNodes == 2

UGeneric == "https://shop.example.com/item/42"
UAmazon == "https://www.amazon.in/dp/B0ABCDE123"
UFlipLaptop == "https://www.flipkart.com/dell-laptop/p/itm1?pid=COMX1"
UFlipBottle == "https://www.flipkart.com/steel-bottle/p/itm9"
UFlipHome == "https://www.flipkart.com/offers"
UFlipHeadphone == "https://www.flipkart.com/boat-headphone/p/itm7"

Urls == {UGeneric, UAmazon, UFlipLaptop, UFlipBottle, UFlipHome, UFlipHeadphone}

\* What the pages of a shop or of amazon are made of
GenericPool ==
    { Element("h1", "", {}, {}, {}, "", " Dell Laptop ", << >>),
      Element("div", "", {"price"}, {}, {}, "", "#24,999", << >>),
      Element("div", "", {"price"}, {}, {}, "", "#0", << >>),
      Element("div", "", {"price"}, {}, {}, "", "Call for price", << >>),
      Element("span", "priceblock_ourprice", {}, {}, {}, "", "#1,299.50", << >>),
      Element("span", "", {}, {}, {}, "", "#499", << >>),
      Element("p", "", {}, {}, {}, "", "Free delivery", << >>) }

\* What the pages of flipkart are made of
FlipkartPool ==
    { Element("h1", "", {}, {}, {}, "", " Dell Laptop ", << >>),
      Element("div", "", {"_30jeq3", "_16Jk6d"}, {}, {}, "", "#24,999", << >>),
      Element("div", "", {"_30jeq3"}, {}, {}, "MRP: ", "#30,000", << >>),
      Element("span", "", {}, {}, {}, "", "#499", << >>),
      Element("span", "", {}, {}, {}, "", "was #30,000", << >>),
      Element("p", "", {}, {}, {}, "", "Free delivery", << >>),
      Element("script", "", {}, {"type=application/ld+json"}, {}, "", "",
              << [offers |-> << "799" >>, isArray |-> FALSE, price |-> ""] >>) }

\* The pages a site may answer with
PagesOf(u) ==
    UNION { [1..n -> IF IsFlipkart(u) THEN FlipkartPool ELSE GenericPool] : n \in 0..MaxNodes }

\* Values of Math.floor(Math.random() * 15000)
RandomDraws == {0, 14999}

\* The identity profiles of the specialized fetch, in list order
userAgents ==
    << "Chrome/96 Windows", "Safari/17 Macintosh", "Edg/123 Windows", "Chrome/100 Linux" >>

InvalidUrlError == "Invalid Flipkart URL format"
FetchError == "Failed to fetch Flipkart page after 4 attempts"

\* attempt++
\* The catch block of the loop without its attempt++
SameAttempt(attempt) == attempt

NextAttempt(attempt) == attempt + 1

\* The wait without its test attempt > 0: one second before every request
DelayBeforeEvery(attempt) == 1000

\* The wait before a request
DelayBefore(attempt) == IF attempt > 0 THEN 1000 ELSE 0

NoOutcome == [kind |-> "none", rec |-> << >>, error |-> "", via |-> "", g |-> NoContext]

VARIABLES pc, url, attempt, requests, responses, page, outcome, g, prev

scrapeVars == << pc, url, attempt, requests, responses, page, outcome, g, prev >>

ScrapeInit ==
    /\ pc = "idle"
    /\ url = ""
    /\ attempt = 0
    /\ requests = << >>
    /\ responses = << >>
    /\ page = << >>
    /\ outcome = NoOutcome
    /\ g = NoContext
    /\ prev = Null

Done == pc \in {"returned", "threw"}

\* prev for a call of scrapeProductInfo(u): the simulated price of the call
\* before when that call was for u as well, Null otherwise
Remembered(u) ==
    IF pc = "returned" /\ url = u /\ outcome.rec.isSimulated
    THEN outcome.rec.price
    ELSE Null

Finish(o) ==
    /\ outcome' = o
    /\ pc' = IF o.kind = "return" THEN "returned" ELSE "threw"

\* scrapeProductInfo(u) is called: the call before is over
Call(u) ==
    /\ pc = "idle" \/ Done
    /\ pc' = "called"
    /\ url' = u
    /\ attempt' = 0
    /\ requests' = << >>
    /\ responses' = << >>
    /\ page' = << >>
    /\ outcome' = NoOutcome
    /\ prev' = Remembered(u)
    /\ UNCHANGED g

\* The call goes on to its first request: at once for a shop or amazon, for
\* flipkart once scrapeFlipkart has a product id
Proceed ==
    /\ pc = "called"
    /\ ~IsFlipkart(url) \/ extractFlipkartProductId(url) # ""
    /\ pc' = "fetching"
    /\ UNCHANGED << url, attempt, requests, responses, page, outcome, g, prev >>

\* A flipkart URL without a product id: scrapeFlipkart throws before any
\* request and its catch block answers
InvalidFlipkartUrl(random) ==
    /\ pc = "called"
    /\ IsFlipkart(url) /\ extractFlipkartProductId(url) = ""
    /\ Finish(FlipkartFallback(url, random, InvalidUrlError))
    /\ UNCHANGED << url, attempt, requests, responses, page, g, prev >>

\* The generic request is answered with status 200 and page p
GenericResponse(p) ==
    /\ pc = "fetching" /\ ~IsFlipkart(url)
    /\ requests' = Append(requests, [profile |-> 1, delay |-> 0])
    /\ responses' = Append(responses, "ok200")
    /\ page' = p
    /\ Finish(ScrapeGeneric(url, p))
    /\ g' = outcome'.g
    /\ UNCHANGED << url, attempt, prev >>

\* The generic request fails: axios rejects (network error, timeout, status
\* outside 2xx), or resolves with a 2xx status other than 200
GenericFailure(response) ==
    /\ pc = "fetching" /\ ~IsFlipkart(url)
    /\ requests' = Append(requests, [profile |-> 1, delay |-> 0])
    /\ responses' = Append(responses, response)
    /\ Finish(ScrapeCatch(url, "fetch", g))
    /\ UNCHANGED << url, attempt, page, g, prev >>

FlipkartRequest ==
    /\ pc = "fetching" /\ IsFlipkart(url)
    /\ requests' = Append(requests, [profile |-> attempt + 1, delay |-> DelayBefore(attempt)])

\* axios rejects the request of this attempt (network error, timeout, status
\* outside 2xx, a redirect): the next profile is tried, and after the last
\* one the catch block answers
FlipkartRejected(random) ==
    /\ FlipkartRequest
    /\ responses' = Append(responses, "rejected")
    /\ attempt' = NextAttempt(attempt)
    /\ IF NextAttempt(attempt) < Len(userAgents)
       THEN UNCHANGED << pc, outcome >>
       ELSE Finish(FlipkartFallback(url, random, FetchError))
    /\ UNCHANGED << url, page, g, prev >>

\* The request resolves with a 2xx status other than 200: response is set,
\* the loop ends, the status test throws and the catch block answers
FlipkartNon200(random) ==
    /\ FlipkartRequest
    /\ responses' = Append(responses, "non200")
    /\ Finish(FlipkartFallback(url, random, FetchError))
    /\ UNCHANGED << url, attempt, page, g, prev >>

\* The request resolves with status 200 and page p
FlipkartOk(p) ==
    /\ FlipkartRequest
    /\ responses' = Append(responses, "ok200")
    /\ page' = p
    /\ Finish(ScrapeFlipkartPage(url, p, g))
    /\ UNCHANGED << url, attempt, g, prev >>

ScrapeNext ==
    \/ \E u \in Urls : Call(u)
    \/ Proceed
    \/ \E r \in RandomDraws : InvalidFlipkartUrl(r)
    \/ \E p \in PagesOf(url) : GenericResponse(p)
    \/ \E response \in {"rejected", "non200"} : GenericFailure(response)
    \/ \E r \in RandomDraws : FlipkartRejected(r)
    \/ \E r \in RandomDraws : FlipkartNon200(r)
    \/ \E p \in PagesOf(url) : FlipkartOk(p)

-----------------------------------------------------------------------------
(* The pure functions, applied to arguments drawn from bounded sets: args  *)
(* holds the arguments of one call, value its result once it has returned  *)

VARIABLES args, value

pureVars == << args, value >>

\* No call of a pure function is modelled
PureIdle == args = << >> /\ value = << >>

-----------------------------------------------------------------------------
(* The extension: chrome.storage.local's trackedProducts, the price check  *)
(* of the background script and the popup's handlers.  running is the      *)
(* checkAllPrices in progress: the products it read and works on, and the  *)
(* index of the product it checks next.  removedByUser, confirmedByUser    *)
(* and manualByUser record what the user did last to a URL.                *)

VARIABLES trackedProducts, running, removedByUser, confirmedByUser, manualByUser,
          notifiedUrls, lastNotice, manualUpdate, displayed, lastClick, storedEmail

extensionVars == << trackedProducts, running, removedByUser, confirmedByUser, manualByUser,
                   notifiedUrls, lastNotice, manualUpdate, displayed, lastClick,
                   storedEmail >>

\* What the popup shows and what it was last asked to do
popupVars == << displayed, lastClick, storedEmail >>

\* No checkAllPrices is in progress
NoRun == [active |-> FALSE, products |-> << >>, index |-> 0, serverAvailable |-> FALSE,
          userEmail |-> FALSE]

\* No check has notified yet
NoNotice == [url |-> "", price |-> Null, previous |-> Null, again |-> FALSE]

\* No delete button was clicked yet
NoClick == [url |-> "", removed |-> "", stopped |-> ""]

\* No 'updateManualPrice' message was sent yet
NoManual == [pc |-> "idle", url |-> "", currentPrice |-> Null, sendNotification |-> FALSE,
             userEmail |-> "", targetPrice |-> Null, notify |-> "none", update |-> "none",
             response |-> [status |-> 0, notificationSent |-> FALSE,
                           notificationError |-> FALSE]]

\* The storage of a fresh install
ExtensionInit ==
    /\ trackedProducts = << >>
    /\ running = NoRun
    /\ removedByUser = {}
    /\ confirmedByUser = {}
    /\ manualByUser = {}
    /\ notifiedUrls = {}
    /\ lastNotice = NoNotice
    /\ manualUpdate = NoManual
    /\ displayed = << >>
    /\ lastClick = NoClick
    /\ storedEmail = ""

\* sendEmail in progress: where it stands, what it was called with, and the
\* outcome of each transporter.sendMail so far
VARIABLE sending

NotSending == [pc |-> "idle", email |-> "", product |-> << >>, currentPrice |-> Null,
               outcomes |-> << >>]

SendInit == sending = NotSending

\* The last DELETE /api/monitor/:monitorId and its answer: whether a monitor
\* of that id was registered when it came, and whether the monitor was
\* registered and its timer pending when it was answered
VARIABLE lastDelete

NoDelete == [monitorId |-> 0, status |-> 0, active |-> FALSE, registered |-> FALSE,
             pending |-> FALSE]

DeleteInit == lastDelete = NoDelete

\* The callbacks of chrome.storage.local.get that have not run yet, each with
\* the handler it belongs to and the trackedProducts it was given
VARIABLE callbacks

StorageInit == callbacks = {}

-----------------------------------------------------------------------------
(* The server's monitors: POST /api/monitor, /api/monitor/stop,            *)
(* /api/monitor/update-price and the timers of setupPriceCheck.  Monitor   *)
(* objects live in a heap (objects), so that a timer callback that holds a *)
(* monitor object keeps it after activeMonitors[url] is deleted or         *)
(* replaced.  Dates (lastChecked, nextCheckAt) are not modelled.           *)

\* Most monitor objects POST /api/monitor creates in a run
MaxMonitors == 1
\* Most timers pending at a time
MaxTimers == 3
\* Most emails sent in a run
MaxEmails == 2
\* Most elements of a page a monitored URL answers with
MaxMonitorNodes == 1

MonitorUrls == {UGeneric}
MonitorEmails == {"a@x.in"}
MonitorTargets == {H(500)}
MonitorIntervals == {60}
ManualPrices == {H(400), H(900)}

\* JavaScript's a <= b on numbers: false when either is NaN
Le(a, b) == a # NaN /\ b # NaN /\ a <= b

\* Number(price) of a record's price: Number(null) is 0
NumberOf(price) == IF price = Null THEN 0 ELSE price

\* parseFloat(price) of a record's price: parseFloat(null) is NaN
ParseFloatOf(price) == IF price = Null THEN NaN ELSE price

\* /^[^\s@]+@[^\s@]+\.[^\s@]+$/.test(email)
validateEmail(email) ==
    /\ \A i \in 1..Len(email) : ~IsSpace(Ch(email, i))
    /\ \E a \in 1..Len(email) :
          /\ Ch(email, a) = "@"
          /\ \A i \in 1..Len(email) : Ch(email, i) = "@" => i = a
          /\ a > 1
          /\ \E d \in (a + 2)..(Len(email) - 1) : Ch(email, d) = "."

\* Whether sendEmail(email, product, currentPrice) resolves: the address and
\* the product data pass the validation and one of the three attempts of the
\* transport succeeds (transportOk)
sendEmail(email, product, transportOk) ==
    /\ validateEmail(email)
    /\ product.title # "" /\ TruthyNum(product.targetPrice) /\ product.url # ""
    /\ transportOk

\* The mail sendEmail hands to the transport
Mail(email, product, currentPrice) ==
    [to |-> email, title |-> product.title, url |-> product.url, price |-> currentPrice]

\* What the pages of a monitored URL are made of
MonitorPool ==
    { Element("div", "", {"price"}, {}, {}, "", "#24,999", << >>),
      Element("div", "", {"price"}, {}, {}, "", "Call for price", << >>),
      Element("span", "", {}, {}, {}, "", "#499", << >>) }

MonitorPages == UNION { [1..n -> MonitorPool] : n \in 0..MaxMonitorNodes }

\* What the site of a monitored URL answers a request with: no page (the
\* request fails), or a page
NoPage == << "none" >>
SiteAnswers == {NoPage} \cup { << "page", p >> : p \in MonitorPages }

\* scrapeProductInfo(u) against a site that answers with a; globals is globalThis
Scraped(u, a, globals) ==
    IF a = NoPage THEN ScrapeCatch(u, "fetch", globals) ELSE ScrapeGeneric(u, a[2])

NoCheck == [done |-> FALSE, url |-> "", monitor |-> 0, registered |-> FALSE,
            returned |-> FALSE, pagePrice |-> Null, targetPrice |-> Null,
            delivered |-> FALSE, notified |-> FALSE]

VARIABLES objects, activeMonitors, priceCheckTimeouts, timers, inflight, outbox, lastCheck

monitorVars == << objects, activeMonitors, priceCheckTimeouts, timers, inflight, outbox, lastCheck >>

\* objects[i] is the i-th monitor object created; activeMonitors[u] and
\* priceCheckTimeouts[u] are 0 when the key is absent; timers holds the pending
\* timers, inflight the periodic checks that await their scrape, outbox the
\* mails handed to the transport; lastCheck records the periodic check that
\* completed last
MonitorInit ==
    /\ objects = << >>
    /\ activeMonitors = [u \in MonitorUrls |-> 0]
    /\ priceCheckTimeouts = [u \in MonitorUrls |-> 0]
    /\ timers = {}
    /\ inflight = {}
    /\ outbox = << >>
    /\ lastCheck = NoCheck

\* clearTimeout(id) without effect: the timer stays pending
KeepTimeout(tm, id) == tm

\* clearTimeout(id) on the pending timers
ClearTimeout(tm, id) == {t \in tm : t.id # id}

\* The timer ids no pending timer and no entry of priceCheckTimeouts holds
FreeIds(tm, pct) ==
    (1..MaxTimers) \ ({t.id : t \in tm} \cup {pct[u] : u \in MonitorUrls})

\* setupPriceCheck without its setTimeout calls: the pending check is cancelled
\* and nothing is scheduled
setupPriceCheckCancelOnly(tm, pct, objs, act, u, interval) ==
    [timers |-> ClearTimeout(tm, pct[u]), priceCheckTimeouts |-> [pct EXCEPT ![u] = 0]]

\* setupPriceCheck(u, interval) on timers tm and priceCheckTimeouts pct, with
\* the monitor objects objs and activeMonitors act: the timers and the
\* priceCheckTimeouts it leaves
setupPriceCheck(tm, pct, objs, act, u, interval) ==
    With(ClearTimeout(tm, pct[u]), LAMBDA cleared :
    With([pct EXCEPT ![u] = 0], LAMBDA deleted :
        IF act[u] = 0
        THEN [timers |-> cleared, priceCheckTimeouts |-> deleted]
        ELSE With(objs[act[u]], LAMBDA monitor :
             With(Le(monitor.lastPrice, monitor.targetPrice) /\ ~monitor.manualPriceUpdate,
                  LAMBDA already :
             With(Min(FreeIds(cleared, deleted)), LAMBDA first :
             With(IF already THEN Min(FreeIds(cleared, deleted) \ {first}) ELSE first,
                  LAMBDA timeoutId :
                 [timers |-> cleared
                      \cup (IF already
                            THEN {[id |-> first, kind |-> "immediate", url |-> u,
                                   interval |-> 1, monitor |-> act[u]]}
                            ELSE {})
                      \cup {[id |-> timeoutId, kind |-> "check", url |-> u,
                             interval |-> interval, monitor |-> 0]},
                  priceCheckTimeouts |-> [deleted EXCEPT ![u] = timeoutId]]))))))

\* Room for the two timers a call of setupPriceCheck may set
TimersLeft(tm, pct, u) == Cardinality(FreeIds(ClearTimeout(tm, pct[u]), [pct EXCEPT ![u] = 0])) >= 2

OtherScrapeVars == << pc, url, attempt, requests, responses, page, outcome, prev >>

\* POST /api/monitor from the initial scrape on; productInfo is its outcome and
\* most the number of monitor objects a run may hold
StoreMonitorUpTo(most, u, email, targetPrice, checkInterval, productInfo) ==
    /\ Len(objects) < most
    /\ TimersLeft(timers, priceCheckTimeouts, u)
    /\ LET monitor == [monitorId |-> Len(objects) + 1,
                       url |-> u,
                       email |-> email,
                       targetPrice |-> targetPrice,
                       checkInterval |-> checkInterval,
                       isActive |-> TRUE,
                       title |-> IF productInfo.kind = "return"
                                 THEN productInfo.rec.title ELSE "Product",
                       lastPrice |-> IF productInfo.kind = "return"
                                     THEN ParseFloatOf(productInfo.rec.price)
                                     ELSE targetPrice,
                       manualPriceUpdate |-> FALSE]
       IN  /\ g' = productInfo.g
           /\ objects' = Append(objects, monitor)
           /\ activeMonitors' = [activeMonitors EXCEPT ![u] = Len(objects) + 1]
           /\ LET set == setupPriceCheck(timers, priceCheckTimeouts, objects',
                                         activeMonitors', u, checkInterval)
              IN  /\ timers' = set.timers
                  /\ priceCheckTimeouts' = set.priceCheckTimeouts
    /\ UNCHANGED << inflight, outbox, lastCheck, OtherScrapeVars, pureVars, extensionVars, sending, lastDelete, callbacks >>

StoreMonitor(u, email, targetPrice, checkInterval, productInfo) ==
    StoreMonitorUpTo(MaxMonitors, u, email, targetPrice, checkInterval, productInfo)

\* POST /api/monitor with url u, an email, a targetPrice and a checkInterval,
\* while the site answers the initial scrape with a
PostMonitor(u, email, targetPrice, checkInterval, a) ==
    StoreMonitor(u, email, targetPrice, checkInterval, Scraped(u, a, g))

\* POST /api/monitor/stop with url u
StopMonitor(u) ==
    /\ IF activeMonitors[u] # 0
       THEN /\ timers' = ClearTimeout(timers, priceCheckTimeouts[u])
            /\ priceCheckTimeouts' = [priceCheckTimeouts EXCEPT ![u] = 0]
            /\ objects' = [objects EXCEPT ![activeMonitors[u]].isActive = FALSE]
            /\ activeMonitors' = [activeMonitors EXCEPT ![u] = 0]
       ELSE UNCHANGED << timers, priceCheckTimeouts, objects, activeMonitors >>
    /\ UNCHANGED << inflight, outbox, lastCheck, scrapeVars, pureVars, extensionVars, sending, lastDelete, callbacks >>

\* A notification that is sent only for a price at or below the target
shouldNotifyBelowOnly(sendNotification, numericPrice, targetPrice) ==
    Le(numericPrice, targetPrice)

\* shouldNotify of POST /api/monitor/update-price: the notification was asked
\* for, or the price is at or below the target
shouldNotify(sendNotification, numericPrice, targetPrice) ==
    sendNotification \/ Le(numericPrice, targetPrice)

\* The answer of POST /api/monitor/update-price: 404 without a monitor for the
\* URL; otherwise 200 with notificationSent when sendEmail resolved and
\* notificationError when it threw
UpdatePriceResponse(u, currentPrice, sendNotification, transportOk) ==
    IF activeMonitors[u] = 0
    THEN [status |-> 404, notificationSent |-> FALSE, notificationError |-> FALSE]
    ELSE LET monitor == objects[activeMonitors[u]]
             productData == [title |-> IF monitor.title # "" THEN monitor.title
                                       ELSE "Product",
                             url |-> u,
                             targetPrice |-> monitor.targetPrice]
             called == /\ shouldNotify(sendNotification, currentPrice, monitor.targetPrice)
                       /\ monitor.email # ""
             resolved == sendEmail(monitor.email, productData, transportOk)
         IN  [status |-> 200, notificationSent |-> called /\ resolved,
              notificationError |-> called /\ ~resolved]

\* The handler of POST /api/monitor/update-price with url u, currentPrice and
\* sendNotification, on the server's state
UpdatePriceHandler(u, currentPrice, sendNotification, transportOk) ==
    /\ Len(outbox) < MaxEmails
    /\ IF activeMonitors[u] = 0
       THEN UNCHANGED << objects, outbox >>
       ELSE LET monitor == objects[activeMonitors[u]]
                productData == [title |-> IF monitor.title # "" THEN monitor.title
                                          ELSE "Product",
                                url |-> u,
                                targetPrice |-> monitor.targetPrice]
            IN  /\ objects' = [objects EXCEPT ![activeMonitors[u]].lastPrice = currentPrice,
                                              ![activeMonitors[u]].manualPriceUpdate = TRUE]
                /\ outbox' = IF /\ shouldNotify(sendNotification, currentPrice,
                                                monitor.targetPrice)
                                /\ monitor.email # ""
                                /\ sendEmail(monitor.email, productData, transportOk)
                             THEN Append(outbox, Mail(monitor.email, productData, currentPrice))
                             ELSE outbox
    /\ UNCHANGED << activeMonitors, priceCheckTimeouts, timers, inflight, lastCheck >>

\* POST /api/monitor/update-price with url u, currentPrice and sendNotification
UpdatePrice(u, currentPrice, sendNotification, transportOk) ==
    /\ UpdatePriceHandler(u, currentPrice, sendNotification, transportOk)
    /\ UNCHANGED << scrapeVars, pureVars, extensionVars, sending, lastDelete, callbacks >>

\* The timer of the immediate notification fires
ImmediateFires(t, transportOk) ==
    /\ t \in timers /\ t.kind = "immediate"
    /\ Len(outbox) < MaxEmails
    /\ timers' = timers \ {t}
    /\ LET monitor == objects[t.monitor]
           product == [title |-> IF monitor.title # "" THEN monitor.title ELSE "Product",
                       url |-> t.url,
                       targetPrice |-> monitor.targetPrice]
       IN  outbox' = IF sendEmail(monitor.email, product, transportOk)
                     THEN Append(outbox, Mail(monitor.email, product, monitor.lastPrice))
                     ELSE outbox
    /\ UNCHANGED << objects, activeMonitors, priceCheckTimeouts, inflight, lastCheck, scrapeVars, pureVars, extensionVars, sending, lastDelete, callbacks >>

\* The timer of the periodic check fires: with an active monitor registered
\* for the URL, the callback picks the manual or the scraped price and awaits
\* scrapeProductInfo
CheckFires(t) ==
    /\ t \in timers /\ t.kind = "check"
    /\ timers' = timers \ {t}
    /\ IF activeMonitors[t.url] # 0 /\ objects[activeMonitors[t.url]].isActive
       THEN LET monitor == objects[activeMonitors[t.url]]
                manual == monitor.manualPriceUpdate /\ TruthyNum(monitor.lastPrice)
            IN  inflight' = inflight \cup
                    {[url |-> t.url, interval |-> t.interval,
                      monitor |-> activeMonitors[t.url],
                      manual |-> manual,
                      currentPrice |-> IF manual THEN monitor.lastPrice ELSE Null,
                      productTitle |-> IF ~manual THEN ""
                                       ELSE IF monitor.title # "" THEN monitor.title
                                       ELSE "Product"]}
       ELSE UNCHANGED inflight
    /\ UNCHANGED << objects, activeMonitors, priceCheckTimeouts, outbox, lastCheck, scrapeVars, pureVars, extensionVars, sending, lastDelete, callbacks >>

\* The callback of the periodic check c from the end of its scrape on;
\* productInfo is the outcome of the scrape
CheckCompletes(c, productInfo, transportOk) ==
    /\ c \in inflight
    /\ Len(outbox) < MaxEmails
    /\ TimersLeft(timers, priceCheckTimeouts, c.url)
    /\ inflight' = inflight \ {c}
    /\ LET returned == productInfo.kind = "return"
           thrown == ~c.manual /\ ~returned
           currentPrice == IF c.manual THEN c.currentPrice
                           ELSE NumberOf(productInfo.rec.price)
           productTitle == IF c.manual
                           THEN IF returned /\ productInfo.rec.title # ""
                                THEN productInfo.rec.title ELSE c.productTitle
                           ELSE productInfo.rec.title
           monitor == objects[c.monitor]
           product == [title |-> productTitle, url |-> c.url,
                       targetPrice |-> monitor.targetPrice]
           below == ~thrown /\ Le(currentPrice, monitor.targetPrice)
           sent == below /\ sendEmail(monitor.email, product, transportOk)
           caught == thrown \/ (below /\ ~sent)
       IN  /\ g' = productInfo.g
           /\ objects' =
                 IF thrown THEN objects
                 ELSE [objects EXCEPT
                          ![c.monitor].title = IF c.manual /\ ~(returned /\ productInfo.rec.title # "")
                                               THEN @ ELSE productTitle,
                          ![c.monitor].lastPrice = currentPrice]
           /\ outbox' = IF sent THEN Append(outbox, Mail(monitor.email, product, currentPrice))
                        ELSE outbox
           /\ IF caught /\ activeMonitors[c.url] = 0
              THEN UNCHANGED << timers, priceCheckTimeouts >>
              ELSE LET set == setupPriceCheck(timers, priceCheckTimeouts, objects',
                                              activeMonitors, c.url, c.interval)
                   IN  /\ timers' = set.timers
                       /\ priceCheckTimeouts' = set.priceCheckTimeouts
           /\ lastCheck' = [done |-> TRUE, url |-> c.url, monitor |-> c.monitor,
                            registered |-> activeMonitors[c.url] = c.monitor,
                            returned |-> returned,
                            pagePrice |-> IF returned THEN productInfo.rec.price ELSE Null,
                            targetPrice |-> monitor.targetPrice,
                            delivered |-> transportOk,
                            notified |-> sent]
    /\ UNCHANGED << activeMonitors, OtherScrapeVars, pureVars, extensionVars, sending, lastDelete, callbacks >>

\* The scrape a periodic check c awaits is over, the site having answered
\* with a
CheckScraped(c, a, transportOk) ==
    CheckCompletes(c, Scraped(c.url, a, g), transportOk)

MonitorNext ==
    \/ \E u \in MonitorUrls, email \in MonitorEmails, targetPrice \in MonitorTargets,
          checkInterval \in MonitorIntervals :
          \E a \in SiteAnswers : PostMonitor(u, email, targetPrice, checkInterval, a)
    \/ \E u \in MonitorUrls : StopMonitor(u)
    \/ \E u \in MonitorUrls, currentPrice \in ManualPrices, sendNotification \in BOOLEAN,
          transportOk \in BOOLEAN :
          UpdatePrice(u, currentPrice, sendNotification, transportOk)
    \/ \E t \in timers, transportOk \in BOOLEAN : ImmediateFires(t, transportOk)
    \/ \E t \in timers : CheckFires(t)
    \/ \E c \in inflight, transportOk \in BOOLEAN :
          \E a \in SiteAnswers : CheckScraped(c, a, transportOk)

vars == << scrapeVars, monitorVars, pureVars, extensionVars, sending, lastDelete, callbacks >>

Init == ScrapeInit /\ MonitorInit /\ PureIdle /\ ExtensionInit /\ SendInit /\ DeleteInit /\ StorageInit

\* Calls of scrapeProductInfo on their own
Next == ScrapeNext /\ UNCHANGED << monitorVars, pureVars, extensionVars, sending, lastDelete, callbacks >>

Spec == Init /\ [][Next]_vars

\* The monitors of the server
MonitorSpec == Init /\ [][MonitorNext]_vars

-----------------------------------------------------------------------------
(* The candidate selection, applied to drawn candidates                    *)

SelectUrls == {UGeneric, UFlipLaptop, UFlipBottle, UFlipHeadphone}
SelectTitles == {"", "Dell Laptop", "Cotton Shirt", "Samsung Galaxy"}

\* Texts with one, two and three rupee amounts
SelectTexts ==
    {"#24,999", "#30,000 #24,999", "#499 #30,000", "#30,000 #30,000", "#499 #24,999 #30,000"}

SelectArgs == [url : SelectUrls, title : SelectTitles, text : SelectTexts]

\* The candidates METHOD 3 selects among: priceMatches for a page of this text
Method3Candidates(text) == CollectMatches(RupeeMatches(text, 1), << >>)

\* The candidates step 8 of extractPriceValue selects among: allPrices
Step8Candidates(text) ==
    SelectSeq(RupeeMatches(text, 1), LAMBDA m : m.value # NaN /\ m.value > 0)

SelectInit ==
    /\ ScrapeInit
    /\ MonitorInit
    /\ ExtensionInit /\ SendInit /\ DeleteInit /\ StorageInit
    /\ args \in SelectArgs
    /\ value = << >>

\* Both selections are applied: METHOD 3 to the candidates with the URL and
\* title of the call, step 8 to the text with globalThis set to them (the
\* parse of steps 4 and 5 having given NaN)
ApplySelection ==
    /\ value = << >>
    /\ value' = << [method3 |-> Method3Selected(args.url, args.title,
                                                 Method3Candidates(args.text)),
                    step8 |-> MultiPriceStep(NaN, args.text,
                                             [url |-> args.url, title |-> args.title])] >>
    /\ UNCHANGED << args, scrapeVars, monitorVars, extensionVars, sending, lastDelete, callbacks >>

SelectSpec == SelectInit /\ [][ApplySelection]_vars

-----------------------------------------------------------------------------
(* The classifier, applied to drawn URLs and titles                        *)

ClassifyUrls == {"", UGeneric, UFlipLaptop, UFlipBottle}

ClassifyTitles ==
    {"", "Samsung", "Samsung Galaxy", "Laptop", "Dell Laptop", "Gaming laptops",
     "Laptop laptop", "Smartphone", "Wireless Bluetooth Headphone", "Mobile charger cover",
     "Cotton Shirt", "Silk Saree", "Tablet Jeans", "Laptop shirt dress", "Steel Bottle"}

ClassifyArgs == [url : ClassifyUrls, title : ClassifyTitles]

ClassifyInit ==
    /\ ScrapeInit
    /\ MonitorInit
    /\ ExtensionInit /\ SendInit /\ DeleteInit /\ StorageInit
    /\ args \in ClassifyArgs
    /\ value = << >>

\* classifyProduct is applied; scores is its local object of that name, the
\* score of categories[j] at index j
Classify ==
    /\ value = << >>
    /\ value' = << [verdict |-> classifyProduct(args.url, args.title),
                    scores |-> [j \in 1..Len(categories) |->
                                   CategoryScore(categories[j],
                                                 ToLowerCase(args.url \o " " \o args.title))]] >>
    /\ UNCHANGED << args, scrapeVars, monitorVars, extensionVars, sending, lastDelete, callbacks >>

ClassifySpec == ClassifyInit /\ [][Classify]_vars

-----------------------------------------------------------------------------
(* The normaliser, applied to drawn price texts                            *)

\* What a price text is put together from: words before the amount, the
\* currency anchor, the number, words after it
PriceLeads == {"", "Save ", "Up to ", "MRP "}
PriceGlyphs == {"", Rupee, "$", "Rs. "}
PriceNumbers == {"45,000", "25,998.00", "600,000.00", "1,299.50", "19.99", "499", "0"}
PriceTails == {"", " off"}

NormaliseArgs == [lead : PriceLeads, glyph : PriceGlyphs, number : PriceNumbers,
                  tail : PriceTails]

\* The text extractPriceValue is called with
PriceStrOf(a) == a.lead \o a.glyph \o a.number \o a.tail

NormaliseInit ==
    /\ ScrapeInit
    /\ MonitorInit
    /\ ExtensionInit /\ SendInit /\ DeleteInit /\ StorageInit
    /\ args \in NormaliseArgs
    /\ value = << >>

\* extractPriceValue is applied, globalThis being unset
Normalise ==
    /\ value = << >>
    /\ value' = << extractPriceValue(PriceStrOf(args), NoContext) >>
    /\ UNCHANGED << args, scrapeVars, monitorVars, extensionVars, sending, lastDelete, callbacks >>

NormaliseSpec == NormaliseInit /\ [][Normalise]_vars

-----------------------------------------------------------------------------
(* Properties of scrapeProductInfo and scrapeFlipkart                      *)

\* The response the call in progress, or the finished call, got last
LastResponse == IF responses = << >> THEN "" ELSE responses[Len(responses)]

\* C1: a call for a non-flipkart URL whose fetch fails (network error, timeout
\* or a status other than 200) does not throw: it returns a record with a
\* non-empty title, a price and isSimulated = true.
C1_FetchFailureReturnsSimulated ==
    (Done /\ ~IsFlipkart(url) /\ LastResponse \in {"rejected", "non200"})
        => /\ outcome.kind = "return"
           /\ outcome.rec.title # ""
           /\ outcome.rec.price # Null
           /\ outcome.rec.isSimulated

\* C2: a call whose page is fetched and on which neither a selector nor the
\* page-text pattern locates a price does not throw: it returns a record that
\* carries the placeholder price 50000 with isSimulated = true.
C2_PriceNotFoundReturnsPlaceholder ==
    (Done /\ ~IsFlipkart(url) /\ LastResponse = "ok200" /\ LocatedPriceText(url, page) = "")
        => /\ outcome.kind = "return"
           /\ outcome.rec.price = H(50000)
           /\ outcome.rec.isSimulated

\* C3: two calls for the same URL that both end in a simulated record return
\* the same simulated price (prev is the simulated price the preceding call
\* for this URL returned).
C3_SimulationDeterministic ==
    (pc = "returned" /\ outcome.rec.isSimulated /\ prev # Null)
        => outcome.rec.price = prev

\* C4: when a periodic check of a monitor that is still registered runs while
\* the page's price is at or below the monitor's targetPrice, that check
\* sends a notification to the monitor's email (the transport delivering),
\* whatever operations, manual price updates included, came before.
C4_DropBelowTargetNotified ==
    (/\ lastCheck.done
     /\ lastCheck.registered
     /\ lastCheck.returned
     /\ lastCheck.pagePrice # Null
     /\ Le(lastCheck.pagePrice, lastCheck.targetPrice)
     /\ lastCheck.delivered)
        => lastCheck.notified

\* C5: the flipkart fetch tries the profiles in list order, stops at the first
\* response with status 200, and gives up with the fetch error only after every
\* profile has been tried: after any outcome other than a 200 the next profile
\* is tried.
C5_FailureOnlyAfterEveryProfile ==
    IsFlipkart(url) =>
        /\ \A i \in DOMAIN requests : requests[i].profile = i
        /\ \A i \in DOMAIN responses : responses[i] = "ok200" => i = Len(responses)
        /\ (pc = "returned" /\ outcome.error = FetchError)
               => Len(requests) = Len(userAgents)

\* C6: the flipkart fetch loop makes at most one request per profile (four
\* requests), never the same profile twice, is still short of the end of the
\* list while it fetches, and after four rejected requests the call has
\* returned the fallback record of the catch block.
C6_AtMostOneRequestPerProfile ==
    IsFlipkart(url) =>
        /\ Len(requests) <= Len(userAgents)
        /\ \A i, j \in DOMAIN requests : i < j => requests[i].profile < requests[j].profile
        /\ pc = "fetching" => attempt < Len(userAgents) /\ Len(requests) = attempt
        /\ (Len(responses) = Len(userAgents) /\ \A i \in DOMAIN responses : responses[i] = "rejected")
               => /\ pc = "returned"
                  /\ outcome.via = "catch"
                  /\ outcome.rec.isSimulated

\* A call that every profile's request rejected and that returned the fallback
C6_Witness ==
    /\ pc = "returned"
    /\ IsFlipkart(url)
    /\ Len(requests) = Len(userAgents)
    /\ \A i \in DOMAIN responses : responses[i] = "rejected"
    /\ outcome.via = "catch"

\* C7: every record a call returns, on every path, has a non-empty title.
C7_TitleNonEmpty ==
    pc = "returned" => outcome.rec.title # ""

\* C8: in every record a call returns, price, when not null, is a strictly
\* positive finite number.
C8_PricePositive ==
    (pc = "returned" /\ outcome.rec.price # Null)
        => outcome.rec.price # NaN /\ outcome.rec.price > 0

\* C9: no record a call returns has price = null.
C9_PriceNeverNull ==
    pc = "returned" => outcome.rec.price # Null

\* The valid prices METHOD 1, METHOD 2, METHOD 3 and METHOD 4 locate on a page
LocatedPrices(p, globals) ==
    ({Method1Price(p, globals), Method2Price(p, globals), Method4Price(p)}
        \cup {Method3Matches(p)[k].value : k \in DOMAIN Method3Matches(p)}) \ {Null}

\* C10: a simulated price is emitted only when no method located a price: when
\* a method located a valid price on the fetched flipkart page, the record is
\* not marked simulated and carries a located price.
C10_SimulatedOnlyWhenNothingLocated ==
    (pc = "returned" /\ IsFlipkart(url) /\ LastResponse = "ok200" /\ LocatedPrices(page, g) # {})
        => /\ ~outcome.rec.isSimulated
           /\ outcome.rec.price \in LocatedPrices(page, g)

\* The price the generic path reads from page p of URL u: what
\* extractPriceValue makes of the located price text
GenericPagePrice(u, p) ==
    extractPriceValue(LocatedPriceText(u, p), [url |-> u, title |-> PageTitle(u, p)])

\* The prices read from page p of URL u
PagePrices(u, p, globals) ==
    IF IsFlipkart(u)
    THEN LocatedPrices(p, globals) \cup {FinalPrice(p, v) : v \in LocatedPrices(p, globals)}
    ELSE IF LocatedPriceText(u, p) = "" THEN {} ELSE {GenericPagePrice(u, p)} \ {Null}

\* The returned record's price was read from the page the site answered with
ReadFromPage ==
    /\ LastResponse = "ok200"
    /\ outcome.rec.price \in PagePrices(url, page, g)

\* The returned record's price is a number that was not read from a page
PlaceholderPrice == outcome.rec.price # Null /\ ~ReadFromPage

InOrderOfFirstAppearance(values, display, ms) ==
    \E at \in [DOMAIN values -> DOMAIN ms] :
        /\ \A i \in DOMAIN values :
            /\ ms[at[i]].value = values[i]
            /\ ms[at[i]].text = display[i]
            /\ \A k \in 1..(at[i] - 1) : ms[k].value # values[i]
        /\ \A i, j \in DOMAIN values : i < j => at[i] < at[j]

\* C12: in every record a call returns, priceOptions has at most 2 entries,
\* its values are pairwise distinct and in order of first appearance in the
\* page text, and priceDisplayOptions has the same length and holds, entry by
\* entry, the matched text of the value: on the generic path and on the
\* page-text path of scrapeFlipkart (METHOD 3) alike.
C12_PriceOptionsDistinctInOrder ==
    pc = "returned" =>
        /\ Len(outcome.rec.priceOptions) <= 2
        /\ Len(outcome.rec.priceDisplayOptions) = Len(outcome.rec.priceOptions)
        /\ \A i, j \in DOMAIN outcome.rec.priceOptions :
               i # j => outcome.rec.priceOptions[i] # outcome.rec.priceOptions[j]
        /\ InOrderOfFirstAppearance(outcome.rec.priceOptions,
                                    outcome.rec.priceDisplayOptions,
                                    RupeeMatches(BodyText(page), 1))

\* Whether sub occurs in s at an index where none of the words of inside,
\* each of which ends in sub, ends as well
IncludesOutside(s, sub, inside) ==
    \E i \in 1..(Len(s) - Len(sub) + 1) :
        /\ SubSeq(s, i, i + Len(sub) - 1) = sub
        /\ \A w \in inside :
               With(i + Len(sub) - Len(w), LAMBDA b :
                   b < 1 \/ SubSeq(s, b, i + Len(sub) - 1) # w)

\* The range, in currency units, of the category the keywords of the URL
\* name: "phone" names a mobile phone where it is not the end of "headphone"
\* or "earphone", which name audio
CategoryRange(u) ==
    With(ToLowerCase(u), LAMBDA urlLower :
        IF \/ Includes(urlLower, "mobile")
           \/ IncludesOutside(urlLower, "phone", {"headphone", "earphone"})
        THEN [min |-> 15000, max |-> 80000]
        ELSE IF Includes(urlLower, "tv") \/ Includes(urlLower, "television")
        THEN [min |-> 15000, max |-> 150000]
        ELSE IF Includes(urlLower, "laptop")
        THEN [min |-> 30000, max |-> 200000]
        ELSE IF \/ Includes(urlLower, "headphone") \/ Includes(urlLower, "earphone")
                \/ Includes(urlLower, "earbud")
        THEN [min |-> 1000, max |-> 30000]
        ELSE [min |-> 500, max |-> 50000])

\* C13: whenever a returned record is simulated, its price lies in the range
\* of the category the URL's keywords name (mobile phones 15,000-80,000,
\* televisions 15,000-150,000, laptops 30,000-200,000, audio 1,000-30,000,
\* otherwise 500-50,000), whatever the product identifier; a URL whose only
\* category keyword is "headphone" is in the audio range.
C13_SimulatedPriceInCategoryRange ==
    (pc = "returned" /\ outcome.rec.isSimulated)
        => /\ outcome.rec.price >= H(CategoryRange(url).min)
           /\ outcome.rec.price <= H(CategoryRange(url).max)

\* C14: calls share no mutable state: globalThis._currentProductUrl and
\* _currentProductTitle are set only while the normalisation of the call that
\* wrote them runs, and are unset again on every exit of it, a throw
\* included, so that no other call's normalisation reads them.  The write,
\* the normalisation and the delete are one synchronous step, so outside
\* that step both are unset in every state.
C14_GlobalsUnsetOutsideNormalisation ==
    g = NoContext

-----------------------------------------------------------------------------
(* Properties of the candidate selection, the classifier and the           *)
(* normaliser                                                              *)

\* The candidate the selection policy names: the second of candidates c when
\* url and title classify as electronics and there is one, otherwise the first
PolicyChoice(c, u, title) ==
    IF classifyProduct(u, title).category = "electronics" /\ Len(c) >= 2
    THEN c[2].value
    ELSE c[1].value

KeywordsIn(cat, text) == {i \in 1..Len(cat.keywords) : Includes(text, cat.keywords[i][1])}

\* The negative keywords of category cat that occur in text, as indices
NegativesIn(cat, text) ==
    {i \in 1..Len(cat.negativeKeywords) : Includes(text, cat.negativeKeywords[i])}

\* The sum of the weights of the keywords of cat with index in S
RECURSIVE WeightSum(_, _)
WeightSum(cat, S) ==
    IF S = {} THEN 0
    ELSE With(CHOOSE i \in S : TRUE, LAMBDA i : cat.keywords[i][2] + WeightSum(cat, S \ {i}))

\* The score the scoring rule gives category cat for text: the weights of the
\* keywords that occur, less 15 for each negative keyword that occurs
RuleScore(cat, text) ==
    WeightSum(cat, KeywordsIn(cat, text)) - 15 * Cardinality(NegativesIn(cat, text))

\* The text classifyProduct scores for the drawn arguments
ClassifiedText == ToLowerCase(args.url \o " " \o args.title)

\* The highest score the scoring rule gives any category for that text
WinningScore ==
    CHOOSE m \in {RuleScore(categories[j], ClassifiedText) : j \in 1..Len(categories)} :
        \A j \in 1..Len(categories) : RuleScore(categories[j], ClassifiedText) <= m

OtherVerdict == [category |-> "other", score |-> 0, isConfident |-> FALSE]

\* C16: classifyProduct returns {category: other, score: 0, isConfident:
\* false} whenever the highest category score is below
\* CLASSIFICATION_THRESHOLD (10), whichever category scored highest: a text
\* whose only keyword is "samsung" (weight 3) is other, a text with "laptop"
\* is electronics.
C16_BelowThresholdIsOther ==
    value # << >> =>
        /\ WinningScore < 10 => value[1].verdict = OtherVerdict
        /\ (args.url = "" /\ args.title = "Samsung") => value[1].verdict = OtherVerdict
        /\ (args.url = "" /\ args.title = "Laptop") => value[1].verdict.category = "electronics"

\* The text whose only keyword is "samsung": the highest score is 3, the
\* verdict is other
C16_Witness ==
    /\ value # << >>
    /\ args.url = ""
    /\ args.title = "Samsung"
    /\ WinningScore = 3
    /\ value[1].verdict = OtherVerdict

\* C17: isConfident is true if and only if the winning score is at least
\* 2 x CLASSIFICATION_THRESHOLD (20); a verdict with a score from 10 to 19
\* (laptop + dell = 14) has a category other than other and isConfident =
\* false.
C17_ConfidentFromTwiceThreshold ==
    value # << >> =>
        /\ value[1].verdict.isConfident <=> WinningScore >= 20
        /\ WinningScore \in 10..19
               => /\ value[1].verdict.category # "other"
                  /\ value[1].verdict.score = WinningScore
                  /\ ~value[1].verdict.isConfident
        /\ (args.url = "" /\ args.title = "Dell Laptop")
               => value[1].verdict = [category |-> "electronics", score |-> 14,
                                      isConfident |-> FALSE]

\* laptop + dell: the score is 14, the verdict electronics and not confident
C17_Witness ==
    /\ value # << >>
    /\ args.url = ""
    /\ args.title = "Dell Laptop"
    /\ WinningScore = 14
    /\ value[1].verdict.category = "electronics"
    /\ ~value[1].verdict.isConfident

\* The first-declared category among those the scoring rule scores highest
RuleWinner ==
    categories[Min({j \in 1..Len(categories) :
                        RuleScore(categories[j], ClassifiedText) = WinningScore})].name

\* C18: the score classifyProduct computes for each category is the sum of
\* the weights of the category's keywords that occur as substrings of the
\* lower-cased url + " " + title (each once however often it occurs, inside
\* larger words too) minus 15 for each negative keyword of the category that
\* occurs; the category reported is the one with the highest score, the
\* first-declared one on an exact tie.
C18_ScoreIsWeightSumLessPenalties ==
    value # << >> =>
        /\ \A j \in 1..Len(categories) :
               value[1].scores[j] = RuleScore(categories[j], ClassifiedText)
        /\ value[1].verdict.category # "other"
               => /\ value[1].verdict.category = RuleWinner
                  /\ value[1].verdict.score = WinningScore
        /\ (args.url = "" /\ args.title \in {"Laptop laptop", "Gaming laptops"})
               => value[1].scores[1] = 10
        /\ (args.url = "" /\ args.title = "Tablet Jeans")
               => value[1].verdict.category = "electronics"

\* A text with a keyword of electronics and two negative ones, which scores
\* 10 - 30 for electronics, and fashion reported
C18_Witness ==
    /\ value # << >>
    /\ args.url = ""
    /\ args.title = "Laptop shirt dress"
    /\ value[1].scores = << -20, 13 >>
    /\ value[1].verdict.category = "fashion"

\* The drawn text has a discount word, and its one number, which a currency
\* glyph anchors, is the discount amount: "Save" or "Up to" leads it, or
\* "off" follows it
DiscountAmountOnly ==
    /\ args.glyph \in {Rupee, "$"}
    /\ args.lead \in {"Save ", "Up to "} \/ args.tail = " off"
    /\ args.lead # "MRP "

\* C19: normalising a text that has a discount word ("off", "save", "up to")
\* and whose only currency-anchored number is the discount amount itself
\* ("#45,000 off", # being the rupee glyph) returns null, never the discount
\* amount as the price.
C19_DiscountAmountIsNotThePrice ==
    (value # << >> /\ DiscountAmountOnly) => value[1] = Null

\* The number of the drawn text is of the shape digits,digits.dd
GroupedTwoDecimals == args.number \in {"25,998.00", "600,000.00", "1,299.50"}

\* The number of the drawn text with its decimal point dropped, in currency
\* units, and as written, in hundredths
PointDropped == DigitsValue(Strip(args.number, {",", "."}))
AsWritten == ParseFloat(Strip(args.number, {","}))

\* C20: for every price text of the shape [currency glyph] digits,digits.dd
\* the normaliser never returns the value with the decimal point dropped (100
\* times too large); "#25,998.00" gives 25998, and a text of that shape
\* without anchor whose stripped value exceeds 500,000 is divided by 100.
C20_DecimalPointNotDropped ==
    (/\ value # << >>
     /\ GroupedTwoDecimals
     /\ args.lead = "" /\ args.tail = ""
     /\ args.glyph \in {"", Rupee, "$"})
        => /\ ~(value[1] % 100 = 0 /\ value[1] \div 100 = PointDropped)
           /\ (args.glyph = Rupee /\ args.number = "25,998.00") => value[1] = H(25998)
           /\ (args.glyph = "" /\ AsWritten > H(500000)) => value[1] = AsWritten \div 100

\* "#25,998.00" normalised to 25998
C20_Witness ==
    /\ value # << >>
    /\ PriceStrOf(args) = "#25,998.00"
    /\ PointDropped = 2599800
    /\ value[1] = H(25998)

\* C21: for a text whose currency glyph is followed by digits with a decimal
\* part of one or two digits ("#1,299.50", "$19.99") the normaliser returns
\* the integer part recombined with the decimal part (1299.5, 19.99), not the
\* truncated integer.
C21_AnchoredDecimalsKept ==
    (/\ value # << >>
     /\ args.lead = "" /\ args.tail = ""
     /\ args.glyph \in {Rupee, "$"}
     /\ Includes(args.number, "."))
        => value[1] = AsWritten

\* The prices element el of a flipkart page can be the source of: the price of
\* its text (METHODS 1 and 2), the rupee amounts of its text (METHOD 3) and
\* the price of its linked data (METHOD 4)
SourcePrices(el) ==
    ({ElementPrice(el, g), Method4Price(<< el >>)}
        \cup {Method3Matches(<< el >>)[k].value : k \in DOMAIN Method3Matches(<< el >>)})
    \ {Null}

\* C22: on flipkart, an element whose enclosing element's text holds "mrp",
\* "original" or "list price" is never the source of the record's price,
\* whatever the method: the price of a record that is not simulated is the
\* price of an element of the page that is not such an element.
C22_MrpElementNeverThePrice ==
    (/\ pc = "returned"
     /\ IsFlipkart(url)
     /\ LastResponse = "ok200"
     /\ ~outcome.rec.isSimulated)
        => \E i \in DOMAIN page :
               /\ ~IsMrpParent(page[i])
               /\ outcome.rec.price \in SourcePrices(page[i])

\* C23, as stated: between consecutive attempts of the flipkart fetch the
\* delay strictly increases with the attempt number (the delay before attempt
\* k + 1 is greater than the delay before attempt k), and no delay precedes
\* the first attempt.
C23_DelayStrictlyIncreases ==
    IsFlipkart(url) =>
        \A k \in DOMAIN requests :
            /\ k = 1 => requests[k].delay = 0
            /\ k > 1 => requests[k].delay > requests[k - 1].delay

\* C23, amended: no delay precedes the first attempt, and the delay before
\* every later attempt is the same one second, so the delays never decrease
\* but do not grow after the second attempt.
C23_DelayConstantAfterFirst ==
    IsFlipkart(url) =>
        \A k \in DOMAIN requests :
            /\ k = 1 => requests[k].delay = 0
            /\ k > 1 => requests[k].delay = 1000

\* A fetch in its third attempt: no delay, then one second twice
C23_Witness ==
    /\ IsFlipkart(url)
    /\ Len(requests) >= 3
    /\ requests[1].delay = 0
    /\ requests[2].delay = 1000
    /\ requests[3].delay = 1000

-----------------------------------------------------------------------------
(* Calls of scrapeProductInfo repeated on the same URL and markup.  Here   *)
(* args holds the URL and the markup of an earlier call that was answered  *)
(* with status 200 and returned, and value the record it returned.         *)

RepeatUrls == {UGeneric, UFlipBottle, UFlipHome}

HeadingElement == Element("h1", "", {}, {}, {}, "", " Dell Laptop ", << >>)

\* The pages the sites answer with: for the shop a page without price and one
\* with a price, for flipkart a page whose price element shows one amount and
\* one whose price element shows two amounts after a rupee glyph without digits
RepeatPages(u) ==
    IF IsFlipkart(u)
    THEN { << HeadingElement,
              Element("div", "", {"_30jeq3"}, {}, {}, "", "#24,999", << >>) >>,
           << HeadingElement,
              Element("div", "", {"_30jeq3"}, {}, {}, "", "# ,... #24,999 #22,499", << >>) >> }
    ELSE { << HeadingElement >>,
           << HeadingElement,
              Element("div", "", {"price"}, {}, {}, "", "#24,999", << >>) >> }

RepeatInit == ScrapeInit /\ MonitorInit /\ PureIdle /\ ExtensionInit /\ SendInit /\ DeleteInit /\ StorageInit

\* A call that returns from a 200 response may be the one kept for comparison
KeepCall ==
    IF pc' = "returned" /\ responses' # << >> /\ responses'[Len(responses')] = "ok200"
    THEN \/ args' = [url |-> url, page |-> page'] /\ value' = << outcome'.rec >>
         \/ UNCHANGED << args, value >>
    ELSE UNCHANGED << args, value >>

RepeatNext ==
    /\ \/ \E u \in RepeatUrls : Call(u)
       \/ Proceed
       \/ \E r \in RandomDraws : InvalidFlipkartUrl(r)
       \/ \E p \in RepeatPages(url) : GenericResponse(p)
       \/ \E response \in {"rejected", "non200"} : GenericFailure(response)
       \/ \E r \in RandomDraws : FlipkartRejected(r)
       \/ \E r \in RandomDraws : FlipkartNon200(r)
       \/ \E p \in RepeatPages(url) : FlipkartOk(p)
    /\ KeepCall
    /\ UNCHANGED << monitorVars, extensionVars, sending, lastDelete, callbacks >>

RepeatSpec == RepeatInit /\ [][RepeatNext]_vars

\* C24: two calls of scrapeProductInfo on the same URL that are answered with
\* status 200 and the same markup return records with the same price, title,
\* priceOptions and priceDisplayOptions, whatever calls ran before or between
\* them.
C24_SameMarkupSameRecord ==
    (/\ pc = "returned" /\ LastResponse = "ok200"
     /\ value # << >>
     /\ args.url = url /\ args.page = page)
        => /\ outcome.rec.price = value[1].price
           /\ outcome.rec.title = value[1].title
           /\ outcome.rec.priceOptions = value[1].priceOptions
           /\ outcome.rec.priceDisplayOptions = value[1].priceDisplayOptions

\* C25: no notification email is sent for a tracked product before the user
\* has confirmed its price.  The server hears of a confirmation through POST
\* /api/monitor/update-price alone, which sets manualPriceUpdate: every mail
\* handed to the transport is for a URL whose monitor has had such a request,
\* the immediate notification after POST /api/monitor included.
C25_NoMailBeforeConfirmation ==
    \A k \in DOMAIN outbox :
        \E i \in DOMAIN objects :
            /\ objects[i].url = outbox[k].url
            /\ objects[i].manualPriceUpdate

\* A step hands a mail for URL u to the transport
MailSentFor(u) ==
    /\ Len(outbox') > Len(outbox)
    /\ outbox'[Len(outbox')].url = u

\* A step sets a timer of the periodic check for URL u
CheckScheduledFor(u) ==
    \E t \in timers' \ timers : t.kind = "check" /\ t.url = u

\* C26: after POST /api/monitor/stop for a URL has answered, and until a new
\* POST /api/monitor for that URL, no mail is sent for the URL and no periodic
\* check is scheduled for it; also when the stop arrives while a periodic
\* check awaits its scrape or while the timer of the immediate notification is
\* pending.  (activeMonitors[u] is empty before and after a step exactly when
\* the step lies between a stop, or the start, and the next registration.)
C26_NothingSentOrScheduledAfterStop ==
    [][\A u \in MonitorUrls :
           (activeMonitors[u] = 0 /\ activeMonitors'[u] = 0)
               => (~MailSentFor(u) /\ ~CheckScheduledFor(u))]_vars

-----------------------------------------------------------------------------
(* The extension's handlers on trackedProducts                             *)

ExtensionUrls == {UGeneric}
ExtensionTarget == H(500)
\* The prices POST /api/scrape answers with
ScrapedPrices == {H(400), H(900)}
\* The prices the user types in
TypedPrices == {H(450)}

\* A findIndex that finds nothing
FindIndexNever(products, u) == 0

\* products.findIndex(p => p.url === u), 0 standing for -1
FindIndex(products, u) ==
    With({i \in DOMAIN products : products[i].url = u}, LAMBDA hits :
        IF hits = {} THEN 0 ELSE Min(hits))

\* products.splice(index, 1)
Splice(products, index) ==
    SubSeq(products, 1, index - 1) \o SubSeq(products, index + 1, Len(products))

\* The products addProduct writes when it was given products: a product of
\* the same URL is updated, a new one is put in front
WithProduct(products, u, targetPrice, currentPrice) ==
    With(FindIndex(products, u), LAMBDA existingIndex :
        IF existingIndex > 0
        THEN [products EXCEPT ![existingIndex].targetPrice = targetPrice,
                              ![existingIndex].currentPrice = currentPrice,
                              ![existingIndex].priceConfirmed = FALSE]
        ELSE << [url |-> u, targetPrice |-> targetPrice,
                 currentPrice |-> currentPrice, priceConfirmed |-> FALSE,
                 manualPriceUpdate |-> FALSE, lastNotified |-> FALSE] >>
             \o products)

\* addProduct from its storage read on, the server having answered the scrape
\* with currentPrice: a product of the same URL is updated, a new one is put
\* in front; priceConfirmed is false either way
addProductStores(u, targetPrice, currentPrice) ==
    /\ trackedProducts' = WithProduct(trackedProducts, u, targetPrice, currentPrice)
    /\ removedByUser' = removedByUser \ {u}
    /\ confirmedByUser' = confirmedByUser \ {u}
    /\ manualByUser' = manualByUser \ {u}
    /\ notifiedUrls' = notifiedUrls \ {u}
    /\ UNCHANGED << running, lastNotice >>

\* addProduct as a step of its own
addProduct(u, targetPrice, currentPrice) ==
    /\ addProductStores(u, targetPrice, currentPrice)
    /\ UNCHANGED << manualUpdate, popupVars, scrapeVars, monitorVars, pureVars, sending,
                    lastDelete, callbacks >>

\* removeProduct(index) of the popup, index counted from 1
removeProductStores(index) ==
    /\ index \in DOMAIN trackedProducts
    /\ trackedProducts' = Splice(trackedProducts, index)
    /\ removedByUser' = removedByUser \cup {trackedProducts[index].url}
    /\ confirmedByUser' = confirmedByUser \ {trackedProducts[index].url}
    /\ manualByUser' = manualByUser \ {trackedProducts[index].url}
    /\ notifiedUrls' = notifiedUrls \ {trackedProducts[index].url}
    /\ UNCHANGED << running, lastNotice >>

\* removeProduct(index) for an index of the list as it is stored
removeProduct(index) ==
    /\ removeProductStores(index)
    /\ UNCHANGED << manualUpdate, popupVars, scrapeVars, monitorVars, pureVars, sending,
                    lastDelete, callbacks >>

\* The "price-correct" button of confirmExtractedPrice for the product of URL
\* u, with the updateManualPrice of the background script that follows when
\* the price is at or below the target
confirmExtractedPrice(u) ==
    /\ With(FindIndex(trackedProducts, u), LAMBDA productIndex :
           /\ productIndex > 0
           /\ trackedProducts' =
                  [trackedProducts EXCEPT
                       ![productIndex].priceConfirmed = TRUE,
                       ![productIndex].manualPriceUpdate =
                            IF Le(trackedProducts[productIndex].currentPrice,
                                  trackedProducts[productIndex].targetPrice)
                            THEN TRUE ELSE @])
    /\ confirmedByUser' = confirmedByUser \cup {u}
    /\ UNCHANGED << running, removedByUser, manualByUser,
                    notifiedUrls, lastNotice, manualUpdate, popupVars,
                    scrapeVars, monitorVars, pureVars, sending, lastDelete, callbacks >>

\* What updateProductPrice(product, newPrice) of the popup and the
\* updateManualPrice of the background script that follows write to the
\* storage for the product of URL u
updateProductPriceStores(u, newPrice) ==
    /\ With(FindIndex(trackedProducts, u), LAMBDA productIndex :
           /\ productIndex > 0
           /\ trackedProducts' =
                  [trackedProducts EXCEPT ![productIndex].currentPrice = newPrice,
                                          ![productIndex].priceConfirmed = TRUE,
                                          ![productIndex].manualPriceUpdate = TRUE])
    /\ confirmedByUser' = confirmedByUser \cup {u}
    /\ manualByUser' = manualByUser \cup {u}
    /\ UNCHANGED << running, removedByUser, notifiedUrls, lastNotice >>

\* updateProductPrice(product, newPrice) of the popup for the product of URL
\* u, with the updateManualPrice of the background script that follows, as far
\* as the storage goes
updateProductPrice(u, newPrice) ==
    /\ updateProductPriceStores(u, newPrice)
    /\ UNCHANGED << manualUpdate, popupVars, scrapeVars, monitorVars, pureVars, sending, lastDelete, callbacks >>

\* checkAllPrices up to its storage read: the products and the email it works on
checkAllPricesReads(serverAvailable, userEmail) ==
    /\ ~running.active
    /\ running' = [active |-> TRUE, products |-> trackedProducts, index |-> 1,
                   serverAvailable |-> serverAvailable, userEmail |-> userEmail]
    /\ UNCHANGED << trackedProducts, removedByUser, confirmedByUser, manualByUser,
                    notifiedUrls, lastNotice, manualUpdate, popupVars,
                    scrapeVars, monitorVars, pureVars, sending, lastDelete, callbacks >>

\* forceNotify: the product was not notified before, or the price went down
forceNotify(product, currentPrice) ==
    ~product.lastNotified \/ currentPrice < product.currentPrice

\* The check that found currentPrice shows the browser notification
\* (sendPriceDropNotification): the product is confirmed and at or below its
\* target, and on the server path forceNotify holds; simulatePriceCheck shows
\* it before it looks at forceNotify
Notifies(product, currentPrice, simulated) ==
    /\ Le(currentPrice, product.targetPrice) /\ product.priceConfirmed
    /\ (simulated \/ forceNotify(product, currentPrice))

\* The product after its check found currentPrice: a product that is confirmed
\* and at or below its target is mailed when forceNotify holds and an email is
\* configured, and lastNotified is written when the mail was sent
Checked(product, currentPrice, userEmail, settled) ==
    [product EXCEPT
        !.currentPrice = currentPrice,
        !.lastNotified =
            IF /\ Le(currentPrice, product.targetPrice) /\ product.priceConfirmed
               /\ forceNotify(product, currentPrice)
               /\ userEmail /\ settled
            THEN TRUE ELSE @]

\* simulatePriceCheck: 10% below the target or 10% above it
SimulatedCheckPrice(targetPrice, drop) ==
    IF drop THEN (targetPrice * 9) \div 10 ELSE (targetPrice * 11) \div 10

\* One link of checkAllPrices' promise chain: the product at running.index is
\* checked.  With the server available and an answer to POST /api/scrape the
\* price is the scraped one and the mail is awaited; otherwise
\* simulatePriceCheck draws the price, and its mail is not awaited.  settled:
\* the mail was sent (and, for simulatePriceCheck, before the storage write)
checkAllPricesChecks(answered, scraped, drop, settled) ==
    /\ running.active
    /\ running.index <= Len(running.products)
    /\ With(running.products[running.index], LAMBDA product :
       With(running.serverAvailable /\ answered, LAMBDA fromServer :
       With(IF fromServer THEN scraped
            ELSE SimulatedCheckPrice(product.targetPrice, drop), LAMBDA currentPrice :
           /\ running' =
                  [running EXCEPT
                      !.index = @ + 1,
                      !.products[running.index] =
                          Checked(product, currentPrice, running.userEmail, settled)]
           /\ IF Notifies(product, currentPrice, ~fromServer)
              THEN /\ lastNotice' = [url |-> product.url, price |-> currentPrice,
                                     previous |-> product.currentPrice,
                                     again |-> product.url \in notifiedUrls]
                   /\ notifiedUrls' = notifiedUrls \cup {product.url}
              ELSE UNCHANGED << notifiedUrls, lastNotice >>)))
    /\ UNCHANGED << trackedProducts, removedByUser, confirmedByUser, manualByUser,
                    manualUpdate, popupVars,
                    scrapeVars, monitorVars, pureVars, sending, lastDelete, callbacks >>

\* The end of the promise chain: updatedProducts is written to the storage
checkAllPricesWrites ==
    /\ running.active
    /\ running.index > Len(running.products)
    /\ trackedProducts' = running.products
    /\ running' = NoRun
    /\ UNCHANGED << removedByUser, confirmedByUser, manualByUser,
                    notifiedUrls, lastNotice, manualUpdate, popupVars,
                    scrapeVars, monitorVars, pureVars, sending, lastDelete, callbacks >>

ExtensionNext ==
    \/ \E u \in ExtensionUrls, currentPrice \in ScrapedPrices :
          addProduct(u, ExtensionTarget, currentPrice)
    \/ \E index \in DOMAIN trackedProducts : removeProduct(index)
    \/ \E u \in ExtensionUrls : confirmExtractedPrice(u)
    \/ \E u \in ExtensionUrls, newPrice \in TypedPrices : updateProductPrice(u, newPrice)
    \/ \E serverAvailable \in BOOLEAN, userEmail \in BOOLEAN :
          checkAllPricesReads(serverAvailable, userEmail)
    \/ \E answered \in BOOLEAN, scraped \in ScrapedPrices, drop \in BOOLEAN,
          settled \in BOOLEAN :
          checkAllPricesChecks(answered, scraped, drop, settled)
    \/ checkAllPricesWrites

\* The extension on its own
ExtensionSpec == Init /\ [][ExtensionNext]_vars

\* C27: a product the user removed is not in trackedProducts again, and a
\* price confirmation or a manual price the user wrote stays written, unless
\* the user adds or changes the product again; also when the user acts while
\* checkAllPrices is between its storage read and its storage write.
C27_UserWritesAreKept ==
    \A i \in DOMAIN trackedProducts :
        /\ trackedProducts[i].url \notin removedByUser
        /\ trackedProducts[i].url \in confirmedByUser => trackedProducts[i].priceConfirmed
        /\ trackedProducts[i].url \in manualByUser => trackedProducts[i].manualPriceUpdate

\* A step in which a periodic check ends and hands a mail to the transport
CheckNotifies ==
    /\ inflight' # inflight /\ inflight' \subseteq inflight
    /\ Len(outbox') > Len(outbox)

\* C28: one cycle of the periodic check sends at most one mail for its
\* monitor: when the check finds the price at or below the target and
\* notifies, the rescheduling that follows sets no timer of the immediate
\* notification, whose callback would send a second mail for the same price.
C28_NoSecondMailAfterNotifyingCheck ==
    [][CheckNotifies => ~\E t \in timers' \ timers : t.kind = "immediate"]_vars

-----------------------------------------------------------------------------
(* The monitors under the scheduling of the server: a pending timer of the *)
(* periodic check fires (setTimeout), and the scrape a check awaits ends   *)
(* (the requests of scrapeProductInfo carry a timeout)                     *)

\* What the site answers while the monitors are followed to the end: no page,
\* or a page with a price at or below the target
LiveAnswers ==
    {NoPage, << "page", << Element("span", "", {}, {}, {}, "", "#499", << >>) >> >>}

MonitorLiveNext ==
    \/ \E u \in MonitorUrls, email \in MonitorEmails, targetPrice \in MonitorTargets,
          checkInterval \in MonitorIntervals :
          \E a \in LiveAnswers : PostMonitor(u, email, targetPrice, checkInterval, a)
    \/ \E u \in MonitorUrls : StopMonitor(u)
    \/ \E u \in MonitorUrls, transportOk \in BOOLEAN :
          UpdatePrice(u, H(400), FALSE, transportOk)
    \/ \E t \in timers, transportOk \in BOOLEAN : ImmediateFires(t, transportOk)
    \/ \E t \in timers : CheckFires(t)
    \/ \E c \in inflight, transportOk \in BOOLEAN :
          \E a \in LiveAnswers : CheckScraped(c, a, transportOk)

MonitorLiveSpec ==
    /\ Init
    /\ [][MonitorLiveNext]_vars
    /\ WF_vars(\E t \in timers : CheckFires(t))
    /\ WF_vars(\E c \in inflight, transportOk \in BOOLEAN :
                  \E a \in LiveAnswers : CheckScraped(c, a, transportOk))

\* The pending timers of the periodic check for URL u
PendingChecks(u) == {t \in timers : t.kind = "check" /\ t.url = u}

\* A periodic check for URL u awaits its scrape
CheckRunning(u) == \E c \in inflight : c.url = u

\* C29: while a monitor for a URL is registered, monitoring does not stop by
\* itself: whenever no check for the URL is running (after the registration
\* and after every check, whether it succeeded, its scrape failed or its mail
\* failed) exactly one timer of the periodic check is pending for the URL, and
\* a check for the URL runs again unless the monitor is stopped first.
C29_MonitoringGoesOn ==
    \A u \in MonitorUrls :
        /\ []((activeMonitors[u] # 0 /\ ~CheckRunning(u))
                  => Cardinality(PendingChecks(u)) = 1)
        /\ (activeMonitors[u] # 0 /\ ~CheckRunning(u))
               ~> (CheckRunning(u) \/ activeMonitors[u] = 0)

\* A check whose scrape failed has ended, the monitor is still registered and
\* the next check is pending
C29_Witness ==
    /\ lastCheck.done /\ ~lastCheck.returned
    /\ activeMonitors[lastCheck.url] # 0
    /\ ~CheckRunning(lastCheck.url)
    /\ PendingChecks(lastCheck.url) # {}

-----------------------------------------------------------------------------
(* The monitors with a URL registered more than once                       *)

\* Most registrations of a run in which a URL is registered again
MaxRegistrations == 2

\* What the site answers then: no page, or a page with a price above the target
AgainAnswers ==
    {NoPage, << "page", << Element("div", "", {"price"}, {}, {}, "", "#24,999", << >>) >> >>}

MonitorAgainNext ==
    \/ \E u \in MonitorUrls, email \in MonitorEmails, targetPrice \in MonitorTargets,
          checkInterval \in MonitorIntervals :
          \E a \in AgainAnswers :
              StoreMonitorUpTo(MaxRegistrations, u, email, targetPrice, checkInterval,
                               Scraped(u, a, g))
    \/ \E u \in MonitorUrls : StopMonitor(u)
    \/ \E t \in timers, transportOk \in BOOLEAN : ImmediateFires(t, transportOk)
    \/ \E t \in timers : CheckFires(t)
    \/ \E c \in inflight, transportOk \in BOOLEAN :
          \E a \in AgainAnswers : CheckScraped(c, a, transportOk)

MonitorAgainSpec == Init /\ [][MonitorAgainNext]_vars

\* C30: at every moment at most one timer of the periodic check is pending
\* for a URL, whatever POST /api/monitor (the same URL registered again
\* included), stops, timer firings and reschedulings came before, and
\* priceCheckTimeouts[url] holds the id of that timer.
C30_OnePendingCheckPerUrl ==
    \A u \in MonitorUrls :
        /\ Cardinality(PendingChecks(u)) <= 1
        /\ \A t \in PendingChecks(u) : priceCheckTimeouts[u] = t.id

\* The URL is registered for the second time while a check of its first
\* monitor awaits its scrape, and one check is pending
C30_Witness ==
    /\ Len(objects) = 2
    /\ \E c \in inflight : c.monitor = 1
    /\ \E u \in MonitorUrls : activeMonitors[u] = 2 /\ Cardinality(PendingChecks(u)) = 1

\* C31: a product whose price stays at the same value at or below the target
\* across consecutive checks of checkAllPrices is notified (browser or email)
\* at most once: a check that notifies a product notified before has found a
\* price strictly lower than the one stored before, with or without a user
\* email and in simulatePriceCheck as well.
C31_NotifiedAgainOnlyWhenLower ==
    lastNotice.again => lastNotice.price < lastNotice.previous

-----------------------------------------------------------------------------
(* sendEmail attempt by attempt                                            *)

SendEmails == {"a@x.in", "b.c@y.co", "", "a@x", "a b@x.in", "@x.in", "a@b@x.in"}
SendProducts ==
    { [title |-> "Phone", targetPrice |-> H(500), url |-> UGeneric],
      [title |-> "Phone", targetPrice |-> H(900), url |-> UGeneric],
      [title |-> "", targetPrice |-> H(500), url |-> UGeneric],
      [title |-> "Phone", targetPrice |-> Null, url |-> UGeneric],
      [title |-> "Phone", targetPrice |-> H(500), url |-> ""] }
SendPrices == {H(400), H(900), Null}

\* const maxAttempts = 3, and a loop that would go on to a fourth attempt
maxAttemptsFour == 3 + 1
maxAttempts == 3

\* The two validations at the head of sendEmail
SendValid(email, product) ==
    /\ validateEmail(email)
    /\ product.title # "" /\ TruthyNum(product.targetPrice) /\ product.url # ""

\* sendEmail(email, product, currentPrice) up to its loop: it throws when a
\* validation fails
sendEmailCalled(email, product, currentPrice) ==
    /\ sending.pc = "idle"
    /\ sending' = [pc |-> IF SendValid(email, product) THEN "loop" ELSE "thrown",
                   email |-> email, product |-> product, currentPrice |-> currentPrice,
                   outcomes |-> << >>]
    /\ UNCHANGED << scrapeVars, monitorVars, pureVars, extensionVars, lastDelete, callbacks >>

\* One turn of while (attempts < maxAttempts): transporter.sendMail resolves
\* (ok) and sendEmail returns, or it rejects and sendEmail waits
\* attempts * 2000 ms when attempts are left, and throws when none is
sendMailAttempt(ok) ==
    /\ sending.pc = "loop"
    /\ With(Len(sending.outcomes) + 1, LAMBDA attempts :
           sending' = [sending EXCEPT
                          !.outcomes = Append(@, ok),
                          !.pc = IF ok THEN "returned"
                                 ELSE IF attempts < maxAttempts THEN "waiting"
                                 ELSE "thrown"])
    /\ UNCHANGED << scrapeVars, monitorVars, pureVars, extensionVars, lastDelete, callbacks >>

\* The wait before the next attempt ends
sendEmailRetries ==
    /\ sending.pc = "waiting"
    /\ sending' = [sending EXCEPT !.pc = "loop"]
    /\ UNCHANGED << scrapeVars, monitorVars, pureVars, extensionVars, lastDelete, callbacks >>

SendNext ==
    \/ \E email \in SendEmails, product \in SendProducts, currentPrice \in SendPrices :
          sendEmailCalled(email, product, currentPrice)
    \/ \E ok \in BOOLEAN : sendMailAttempt(ok)
    \/ sendEmailRetries

SendSpec == Init /\ [][SendNext]_vars

\* Every transporter.sendMail of the call so far was rejected
AllFailed(outcomes) == \A i \in DOMAIN outcomes : ~outcomes[i]

\* C32: sendEmail makes at most 3 send attempts, makes no attempt after a
\* successful one and returns at it, and throws exactly when a validation
\* failed or all 3 attempts failed; with an invalid address or a product
\* without title, targetPrice or url it throws without any attempt.
C32_AtMostThreeAttempts ==
    With(sending.outcomes, LAMBDA outcomes :
        /\ Len(outcomes) <= 3
        /\ \A i \in 1..(Len(outcomes) - 1) : ~outcomes[i]
        /\ (outcomes # << >> /\ outcomes[Len(outcomes)]) <=> sending.pc = "returned"
        /\ sending.pc = "thrown" <=>
               \/ sending.pc # "idle" /\ ~SendValid(sending.email, sending.product)
               \/ Len(outcomes) = 3 /\ AllFailed(outcomes)
        /\ (sending.pc # "idle" /\ ~SendValid(sending.email, sending.product))
               => outcomes = << >>)

\* sendEmail threw after three rejected attempts
C32_Witness ==
    /\ sending.pc = "thrown"
    /\ Len(sending.outcomes) = 3
    /\ SendValid(sending.email, sending.product)

-----------------------------------------------------------------------------
(* A manual price update from the popup to the server                      *)

\* What is stored as userEmail when the user types a price
ManualEmails == {"", "a@x.in"}
\* The target prices of the products, and the emails of the monitors
ManualTargets == {H(500), H(1000)}
RegisteredEmails == {"a@x.in", "a@x"}

\* updateProductPrice(product, newPrice) of the popup with its message
\* 'updateManualPrice', for the one manual price update of a run: sendNotification is newPrice <= targetPrice, and the
\* background script will call sendEmailNotification when sendNotification
\* and userEmail are set, and POST /api/monitor/update-price
updateProductPriceSends(u, newPrice, userEmail) ==
    /\ manualUpdate.pc = "idle"
    /\ updateProductPriceStores(u, newPrice)
    /\ With(FindIndex(trackedProducts, u), LAMBDA productIndex :
       With(Le(newPrice, ParseFloatOf(trackedProducts[productIndex].targetPrice)),
            LAMBDA atOrBelow :
           manualUpdate' = [pc |-> "sent", url |-> u, currentPrice |-> newPrice,
                      sendNotification |-> atOrBelow, userEmail |-> userEmail,
                      targetPrice |-> trackedProducts[productIndex].targetPrice,
                      notify |-> IF atOrBelow /\ userEmail # ""
                                 THEN "pending" ELSE "none",
                      update |-> "pending", response |-> NoManual.response]))
    /\ UNCHANGED << popupVars, scrapeVars, monitorVars, pureVars, sending, lastDelete, callbacks >>

\* sendEmailNotification(userEmail, product, currentPrice) of updateManualPrice:
\* with the server available POST /api/notify, whose handler calls sendEmail
sendEmailNotification(serverAvailable, transportOk) ==
    /\ manualUpdate.notify = "pending"
    /\ Len(outbox) < MaxEmails
    /\ manualUpdate' = [manualUpdate EXCEPT !.notify = "done"]
    /\ With([title |-> "Product", url |-> manualUpdate.url,
             targetPrice |-> manualUpdate.targetPrice], LAMBDA product :
           outbox' = IF /\ serverAvailable
                        /\ TruthyNum(manualUpdate.currentPrice)
                        /\ sendEmail(manualUpdate.userEmail, product, transportOk)
                     THEN Append(outbox, Mail(manualUpdate.userEmail, product, manualUpdate.currentPrice))
                     ELSE outbox)
    /\ UNCHANGED << objects, activeMonitors, priceCheckTimeouts, timers, inflight, lastCheck,
                    trackedProducts, running, removedByUser, confirmedByUser, manualByUser,
                    notifiedUrls, lastNotice, popupVars, scrapeVars, pureVars, sending,
                    lastDelete, callbacks >>

\* updateManualPrice after checkServerAvailability: with the server available
\* POST /api/monitor/update-price with url, currentPrice and sendNotification
updateManualPrice(serverAvailable, transportOk) ==
    /\ manualUpdate.update = "pending"
    /\ manualUpdate' =
           [manualUpdate EXCEPT
               !.update = "done",
               !.response = IF serverAvailable
                            THEN UpdatePriceResponse(manualUpdate.url, manualUpdate.currentPrice,
                                                     manualUpdate.sendNotification, transportOk)
                            ELSE @]
    /\ IF serverAvailable
       THEN UpdatePriceHandler(manualUpdate.url, manualUpdate.currentPrice, manualUpdate.sendNotification,
                               transportOk)
       ELSE UNCHANGED monitorVars
    /\ UNCHANGED << trackedProducts, running, removedByUser, confirmedByUser, manualByUser,
                    notifiedUrls, lastNotice, popupVars, scrapeVars, pureVars, sending,
                    lastDelete, callbacks >>

ManualNext ==
    \/ \E u \in ExtensionUrls, targetPrice \in ManualTargets, currentPrice \in ScrapedPrices :
          addProduct(u, targetPrice, currentPrice)
    \/ \E index \in DOMAIN trackedProducts : removeProduct(index)
    \/ \E u \in MonitorUrls, email \in RegisteredEmails,
          targetPrice \in MonitorTargets, checkInterval \in MonitorIntervals :
          \E a \in AgainAnswers : PostMonitor(u, email, targetPrice, checkInterval, a)
    \/ \E u \in MonitorUrls : StopMonitor(u)
    \/ \E u \in ExtensionUrls, newPrice \in TypedPrices \cup ScrapedPrices,
          userEmail \in ManualEmails :
          updateProductPriceSends(u, newPrice, userEmail)
    \/ \E serverAvailable \in BOOLEAN, transportOk \in BOOLEAN :
          sendEmailNotification(serverAvailable, transportOk)
    \/ \E serverAvailable \in BOOLEAN, transportOk \in BOOLEAN :
          updateManualPrice(serverAvailable, transportOk)

ManualSpec == Init /\ [][ManualNext]_vars

\* The mails sent for the manual price update
ManualMails ==
    {k \in DOMAIN outbox : outbox[k].url = manualUpdate.url /\ outbox[k].price = manualUpdate.currentPrice}

\* C33: a single manual price update by the user at or below the target
\* results in at most one notification email for that product, the email the
\* background script requests via /api/notify and the email the server sends
\* from /api/monitor/update-price counted together.
C33_OneMailPerManualUpdate ==
    manualUpdate.pc = "sent" => Cardinality(ManualMails) <= 1

-----------------------------------------------------------------------------
(* DELETE /api/monitor/:monitorId                                          *)

\* crypto.randomBytes(8).toString('hex') of the monitor object created n-th
MonitorIdHex(n) ==
    IF n = 1 THEN "9f86d081884c7d65" ELSE IF n = 2 THEN "2c26b46b68ffc68f"
    ELSE "fcde2b2edba56bf4"

\* activeMonitors[key] for any key: the monitor object stored under it, 0 for
\* undefined
ActiveMonitorAt(key) == IF key \in DOMAIN activeMonitors THEN activeMonitors[key] ELSE 0

\* The URL under which the monitor of id monitorId is registered, if any
RegisteredUrls(monitorId) ==
    {u \in MonitorUrls : activeMonitors[u] # 0
                         /\ objects[activeMonitors[u]].monitorId = monitorId}

\* DELETE /api/monitor/:monitorId with the id POST /api/monitor answered for
\* the monitor object created monitorId-th: 404 unless activeMonitors holds
\* something under the id; then clearInterval of its timer field, which no
\* monitor has, and the entry is deleted
DeleteMonitor(monitorId) ==
    /\ monitorId \in DOMAIN objects
    /\ With(MonitorIdHex(monitorId), LAMBDA key :
           /\ activeMonitors' = IF ActiveMonitorAt(key) = 0 THEN activeMonitors
                                ELSE [activeMonitors EXCEPT ![key] = 0]
           /\ lastDelete' =
                  [monitorId |-> monitorId,
                   status |-> IF ActiveMonitorAt(key) = 0 THEN 404 ELSE 200,
                   active |-> RegisteredUrls(monitorId) # {},
                   registered |-> \E u \in RegisteredUrls(monitorId) : activeMonitors'[u] # 0,
                   pending |-> \E u \in RegisteredUrls(monitorId) : PendingChecks(u) # {}])
    /\ UNCHANGED << objects, priceCheckTimeouts, timers, inflight, outbox, lastCheck,
                    scrapeVars, pureVars, extensionVars, sending, callbacks >>

DeleteNext ==
    \/ \E u \in MonitorUrls, email \in MonitorEmails, targetPrice \in MonitorTargets,
          checkInterval \in MonitorIntervals :
          \E a \in AgainAnswers :
              StoreMonitorUpTo(MaxRegistrations, u, email, targetPrice, checkInterval,
                               Scraped(u, a, g))
    \/ \E u \in MonitorUrls : StopMonitor(u)
    \/ \E monitorId \in 1..MaxRegistrations : DeleteMonitor(monitorId)
    \/ \E t \in timers : CheckFires(t)
    \/ \E c \in inflight, transportOk \in BOOLEAN :
          \E a \in {NoPage} : CheckScraped(c, a, transportOk)

DeleteSpec == Init /\ [][DeleteNext]_vars

\* C34: cancelling with the monitorId POST /api/monitor returned succeeds for
\* every active monitor: the monitor is removed from activeMonitors and its
\* timer is cleared; 404 is the answer only when no monitor of that id exists.
C34_DeleteByReturnedId ==
    /\ lastDelete.active =>
           /\ lastDelete.status = 200
           /\ ~lastDelete.registered /\ ~lastDelete.pending
    /\ lastDelete.status = 404 => ~lastDelete.active

-----------------------------------------------------------------------------
(* The popup: the list it shows, its delete buttons and its email field    *)

PopupUrls == {UGeneric, UAmazon}
\* Most entries of the list on display
MaxDisplayed == 3
\* What the user types into the email field
TypedEmails == {"", "a@x.in", " a@x.in", "a@x", "a x"}

\* addProductToList(product, index, isNew): an entry is appended to the list,
\* its delete button bound to index (counted from 1)
Entry(u, index) == [url |-> u, index |-> index]

\* loadTrackedProducts: the list is emptied and gets one entry per stored
\* product
Rendered(products) == [i \in DOMAIN products |-> Entry(products[i].url, i)]

loadTrackedProducts ==
    /\ displayed' = Rendered(trackedProducts)
    /\ UNCHANGED << trackedProducts, running, removedByUser, confirmedByUser, manualByUser,
                    notifiedUrls, lastNotice, manualUpdate, lastClick, storedEmail,
                    scrapeVars, monitorVars, pureVars, sending, lastDelete, callbacks >>

\* The add button with the background script's addProduct and its response:
\* the product is stored and addProductToList(product, 0, true) appends its
\* entry; loadTrackedProducts follows a second later
addButtonClicked(u, targetPrice, currentPrice) ==
    /\ Len(displayed) < MaxDisplayed
    /\ addProductStores(u, targetPrice, currentPrice)
    /\ displayed' = Append(displayed, Entry(u, 1))
    /\ UNCHANGED << manualUpdate, lastClick, storedEmail,
                    scrapeVars, monitorVars, pureVars, sending, lastDelete, callbacks >>

\* The delete button of the k-th entry on display: removeProduct(index) with
\* the index the button was bound to, on the products as they are stored now;
\* with an index in range the product there is spliced out, 'stopMonitoring'
\* is sent for its URL and the list is loaded again
deleteClicked(k) ==
    /\ k \in DOMAIN displayed
    /\ With(displayed[k], LAMBDA entry :
           IF entry.index \in DOMAIN trackedProducts
           THEN /\ removeProductStores(entry.index)
                /\ displayed' = Rendered(trackedProducts')
                /\ lastClick' = [url |-> entry.url,
                                 removed |-> trackedProducts[entry.index].url,
                                 stopped |-> trackedProducts[entry.index].url]
           ELSE /\ lastClick' = [url |-> entry.url, removed |-> "", stopped |-> ""]
                /\ UNCHANGED << trackedProducts, running, removedByUser, confirmedByUser,
                                manualByUser, notifiedUrls, lastNotice, displayed >>)
    /\ UNCHANGED << manualUpdate, storedEmail,
                    scrapeVars, monitorVars, pureVars, sending, lastDelete, callbacks >>

\* isValidEmail of the popup: the regular expression of validateEmail
isValidEmail(email) == validateEmail(email)

\* The save-email button with text in the email field.  Its first listener
\* trims and validates the text and shows a status; its second listener sends
\* 'email-setup' with the text as it is, and the background script stores it
saveEmailClicked(text) ==
    /\ storedEmail' = text
    /\ UNCHANGED << trackedProducts, running, removedByUser, confirmedByUser, manualByUser,
                    notifiedUrls, lastNotice, manualUpdate, displayed, lastClick,
                    scrapeVars, monitorVars, pureVars, sending, lastDelete, callbacks >>

PopupNext ==
    \/ loadTrackedProducts
    \/ \E u \in PopupUrls, currentPrice \in ScrapedPrices :
          addButtonClicked(u, ExtensionTarget, currentPrice)
    \/ \E k \in DOMAIN displayed : deleteClicked(k)
    \/ \E text \in TypedEmails : saveEmailClicked(text)

PopupSpec == Init /\ [][PopupNext]_vars

\* C35: a click on the delete button of a displayed product removes exactly
\* the product of that entry's URL from trackedProducts and stops the
\* monitoring of that URL, also when trackedProducts changed between the
\* rendering of the list and the click.
C35_DeleteRemovesTheEntryClicked ==
    lastClick.url # "" =>
        /\ lastClick.removed = lastClick.url
        /\ lastClick.stopped = lastClick.url

\* C39: a click on the popup's save-email button with an empty or a
\* syntactically invalid address never changes the stored userEmail: a value
\* is stored only when it passes the validation of the email format.
C39_OnlyValidEmailStored ==
    [][storedEmail' # storedEmail => isValidEmail(Trim(storedEmail'))]_vars

\* A step in which POST /api/monitor/update-price is answered
UpdatePriceAnswered ==
    /\ manualUpdate.update = "pending" /\ manualUpdate'.update = "done"
    /\ manualUpdate'.response.status # 0

-----------------------------------------------------------------------------
(* The handlers that write trackedProducts, each between its               *)
(* chrome.storage.local.get and the callback that writes                   *)

\* Most callbacks waiting at a time
MaxCallbacks == 2
\* The price the simulation draws, and the price a refresh brings
StoredPrices == {H(400)}

\* The handlers that go by the URL, and those that go by the index of an entry
\* of the popup's list
UrlHandlers == {"addProduct", "simulateProductInfo", "updateManualPrice"}
IndexHandlers == {"removeProduct", "refreshProduct"}

\* chrome.storage.local.get(['trackedProducts'], callback) of a handler called
\* for URL u, or for the index of an entry of the popup's list
storageGet(handler, u, index) ==
    /\ Cardinality(callbacks) < MaxCallbacks
    /\ callbacks' = callbacks \cup {[handler |-> handler, url |-> u, index |-> index,
                                     products |-> trackedProducts]}
    /\ UNCHANGED << scrapeVars, monitorVars, pureVars, extensionVars, sending, lastDelete >>

\* What the callback c writes, if it writes.  simulateProductInfo leaves the
\* price of a product it finds; removeProduct and the refresh go by the index;
\* updateManualPrice goes by the URL and adds nothing
Written(c, currentPrice) ==
    With(FindIndex(c.products, c.url), LAMBDA existingIndex :
        CASE c.handler = "addProduct" ->
                 WithProduct(c.products, c.url, ExtensionTarget, currentPrice)
          [] c.handler = "simulateProductInfo" ->
                 IF existingIndex > 0
                 THEN [c.products EXCEPT ![existingIndex].targetPrice = ExtensionTarget]
                 ELSE << [url |-> c.url, targetPrice |-> ExtensionTarget,
                          currentPrice |-> currentPrice, priceConfirmed |-> FALSE,
                          manualPriceUpdate |-> FALSE, lastNotified |-> FALSE] >>
                      \o c.products
          [] c.handler = "removeProduct" ->
                 IF c.index \in DOMAIN c.products THEN Splice(c.products, c.index)
                 ELSE trackedProducts
          [] c.handler = "refreshProduct" ->
                 IF c.index \in DOMAIN c.products
                 THEN [c.products EXCEPT ![c.index].currentPrice = currentPrice,
                                         ![c.index].priceConfirmed = FALSE]
                 ELSE trackedProducts
          [] OTHER ->
                 IF existingIndex > 0
                 THEN [c.products EXCEPT ![existingIndex].currentPrice = currentPrice,
                                         ![existingIndex].manualPriceUpdate = TRUE]
                 ELSE trackedProducts)

\* The callback c runs and its chrome.storage.local.set is carried out
storageSet(c, currentPrice) ==
    /\ c \in callbacks
    /\ callbacks' = callbacks \ {c}
    /\ trackedProducts' = Written(c, currentPrice)
    /\ UNCHANGED << running, removedByUser, confirmedByUser, manualByUser, notifiedUrls,
                    lastNotice, manualUpdate, popupVars,
                    scrapeVars, monitorVars, pureVars, sending, lastDelete >>

StorageNext ==
    \/ \E handler \in UrlHandlers, u \in PopupUrls : storageGet(handler, u, 0)
    \/ \E handler \in IndexHandlers, index \in 1..Cardinality(PopupUrls) :
          storageGet(handler, "", index)
    \/ \E c \in callbacks, currentPrice \in StoredPrices : storageSet(c, currentPrice)
    \/ \E serverAvailable \in {TRUE}, userEmail \in {FALSE} :
          checkAllPricesReads(serverAvailable, userEmail)
    \/ \E answered \in {TRUE}, scraped \in StoredPrices, drop \in {TRUE},
          settled \in {FALSE} :
          checkAllPricesChecks(answered, scraped, drop, settled)
    \/ checkAllPricesWrites

StorageSpec == Init /\ [][StorageNext]_vars

\* C37: trackedProducts never holds two entries of the same URL, whatever
\* sequence and interleaving of addProduct (with the server or simulated),
\* refresh, removeProduct, manual price updates and checkAllPrices came before.
C37_NoTwoEntriesOfOneUrl ==
    \A i, j \in DOMAIN trackedProducts :
        trackedProducts[i].url = trackedProducts[j].url => i = j

\* Two products are stored while a callback of addProduct that was given the
\* empty list waits
C37_Witness ==
    /\ Len(trackedProducts) = 2
    /\ \E c \in callbacks : c.handler = "addProduct" /\ c.products = << >>

-----------------------------------------------------------------------------
(* The monitors with a URL registered again at another interval            *)

RegisteredIntervals == {60, 120}

MonitorIntervalNext ==
    \/ \E u \in MonitorUrls, email \in MonitorEmails, targetPrice \in MonitorTargets,
          checkInterval \in RegisteredIntervals :
          \E a \in AgainAnswers :
              StoreMonitorUpTo(MaxRegistrations, u, email, targetPrice, checkInterval,
                               Scraped(u, a, g))
    \/ \E u \in MonitorUrls : StopMonitor(u)
    \/ \E t \in timers, transportOk \in BOOLEAN : ImmediateFires(t, transportOk)
    \/ \E t \in timers : CheckFires(t)
    \/ \E c \in inflight, transportOk \in BOOLEAN :
          \E a \in AgainAnswers : CheckScraped(c, a, transportOk)

MonitorIntervalSpec == Init /\ [][MonitorIntervalNext]_vars

\* C38: after each completed periodic check the next check of a URL is
\* scheduled after the checkInterval of the monitor registered for the URL at
\* that time, also when the monitor was registered again with another interval
\* while the check was in flight: the pending timer of the check runs for the
\* interval of the registered monitor.
C38_NextCheckAfterRegisteredInterval ==
    \A u \in MonitorUrls :
        (activeMonitors[u] # 0 /\ lastCheck.done /\ lastCheck.url = u /\ ~CheckRunning(u))
            => \A t \in PendingChecks(u) : t.interval = objects[activeMonitors[u]].checkInterval

=============================================================================
